---- MODULE Spec2Model ----
(***************************************************************************)
(* State-machine model of the thought graph engine of                      *)
(* enhanced_sequential_thinking_server.py: EnhancedThinkingProcessor (the  *)
(* thought store, the session map, the strategy history, the id counter)   *)
(* and the tool handlers of EnhancedThinkingServer that drive it.          *)
(*                                                                         *)
(* Python strings that the code inspects (thought text, ids, session       *)
(* names) are tuples; None is the empty tuple, which is falsy like None.   *)
(***************************************************************************)
EXTENDS Integers, Sequences, FiniteSets, TLC

\* ------------------------------------------------------------------ bounds
\* successful creations explored (caps global_thought_counter)
MaxThoughts == 3
\* suggest_next_thinking_strategy calls explored in Spec
MaxSuggest == 1
\* iterations of the get_thinking_path loop explored before the model stops
\* following a walk that the code would continue
MaxWalk == 5

\* ------------------------------------------------------------------ inputs
None == <<>>

\* datetime.now().strftime('%H%M%S'): the second within which the explored
\* calls are served, the case in which only the counter tells ids apart
Clock == {"120000"}

Whitespace == {" ", "\n"}

\* thought texts a caller sends: empty, whitespace only, text with padding
Contents == {<<>>, <<" ", "\n">>, <<" ", "a">>}

\* EnhancedThinkingInput with the defaults of its fields
ThinkingInput(text, parent) ==
    [thought |-> text,
     thought_type |-> "analysis",
     strategy |-> "linear",
     parent_thought_id |-> parent,
     revision_of_id |-> None,
     branch_id |-> None,
     supports_thoughts |-> <<>>,
     contradicts_thoughts |-> <<>>,
     builds_on_thoughts |-> <<>>,
     tags |-> <<>>,
     confidence |-> None,
     response_language |-> None,
     request_analysis |-> TRUE,
     request_validation |-> TRUE]

\* every id generate_thought_id can produce within the bound
PossibleIds == {<<"thought", n, h>> : n \in 1..MaxThoughts, h \in Clock}

\* an id-shaped string of an earlier second, which no thought ever gets
StaleId == <<"thought", 1, "115959">>

\* parent_thought_id values a caller sends: absent, or an id-shaped string,
\* which names a stored thought, a thought stored later, or none at all
ParentInputs == {None} \cup PossibleIds \cup {StaleId}

\* thought_id values a caller asks get_thinking_path for
ThoughtIdInputs == PossibleIds \cup {StaleId}

\* session_id values a caller sends
SessionInputs == {None, <<"default">>, <<"other">>}

\* thought texts explored by SpecCoherence, which hold contradiction words
CoherenceContents ==
    {<<"n", "o">>, <<"y", "e", "s">>,
     <<"N", "o", "t", " ", "b", "a", "d">>,
     <<"y", "e", "s", ",", " ", "g", "o", "o", "d">>}

\* what TfidfVectorizer and cosine_similarity make of n thoughts: nothing,
\* when the libraries are missing or the vectorizer raises, or a similarity
\* matrix, of which low holds the pairs (i, j), i < j counted from 0, whose
\* similarity is below 0.3
SimilarityOutcomes(n) ==
    {[computed |-> FALSE, low |-> {}]} \cup
    {[computed |-> TRUE, low |-> l] :
        l \in SUBSET {p \in (0..(n - 1)) \X (0..(n - 1)) : p[1] < p[2]}}

\* the deployment without the analysis libraries
NoSimilarity == [computed |-> FALSE, low |-> {}]

FormatInputs == {"json", "markdown", "summary", "xml"}

StrategyInputs == {"linear"}

\* effectiveness_score in hundredths
EffectivenessInputs == {80}

\* context texts a caller sends with adapt_thinking_strategy
PlainContext == <<"p", "l", "a", "n">>

\* four words of eight letters in one sentence
ComplexContext ==
    <<"a", "a", "a", "a", "a", "a", "a", "a", " ", "b", "b", "b", "b", "b", "b", "b", "b", " ", "c", "c", "c", "c", "c", "c", "c", "c", " ", "d", "d", "d", "d", "d", "d", "d", "d">>

AmbiguousContext == <<"I", "f", " ", "o", "r">>

EmotionalContext == <<"g", "o", "o", "d">>

ContextInputs == {PlainContext, ComplexContext, AmbiguousContext, EmotionalContext}

\* (current_strategy, effectiveness_score) of the calls explored by
\* SpecStrategy: a score in each range of the fallback, the threshold 0.7
\* itself, and two strategies that were effective
StrategyCalls ==
    {<<"linear", 40>>, <<"linear", 60>>, <<"linear", 70>>,
     <<"critical", 80>>, <<"creative", 80>>}

\* histories explored by SpecStrategy are cut off at this length
MaxHistory == 6

\* the calls explored by SpecHistory: one that fills the history and two
\* that can be told apart in it
FillerCall == <<"linear", 60>>

MarkedCalls == {<<"critical", 80>>, <<"creative", 40>>}

\* marked entries that SpecHistory lets the history hold at a time
MaxMarked == 2

\* ------------------------------------------------------------------- state
VARIABLES
    thoughts,               \* self.thoughts: id -> EnhancedThought
    thought_sessions,       \* self.thought_sessions: defaultdict(list)
    strategy_history,       \* self.strategy_history
    global_thought_counter, \* self.global_thought_counter
    pc,                     \* "idle", or "walk" inside get_thinking_path's loop
    path,                   \* get_thinking_path: path
    current_thought,        \* get_thinking_path: current_thought (its id) or None
    request,                \* the tool call being served, or served last
    response,               \* payload of the last tool response
    initialized,            \* server._initialized
    init_event,             \* server._init_event is set
    language,               \* server.language
    formatter_language,     \* server.output_formatter.language
    init_calls,             \* initialize() calls made
    validations,            \* _validate_components() calls made
    running,                \* the tool calls the event loop is running
    calls                   \* tool calls: call number -> its coroutine's state

vars == <<thoughts, thought_sessions, strategy_history, global_thought_counter,
          pc, path, current_thought, request, response,
          initialized, init_event, language, formatter_language, init_calls,
          validations, running, calls>>

engine == <<thoughts, thought_sessions, strategy_history, global_thought_counter>>

walk == <<pc, path, current_thought>>

\* the server around the engine; a handler that finds the server initialized
\* runs without suspension and leaves all of this as it found it
server == <<initialized, init_event, language, formatter_language, init_calls,
            validations, running, calls>>

\* the server after main's initialize() succeeded, with no call in flight
ServerStarted ==
    /\ initialized = TRUE
    /\ init_event = TRUE
    /\ language = <<"en">>
    /\ formatter_language = <<"en">>
    /\ init_calls = 1
    /\ validations = 1
    /\ running = {}
    /\ calls = <<>>

NoRequest == [tool |-> "none"]

NoResponse == [status |-> "none"]

current_session_id == <<"default">>

\* ----------------------------------------------------------------- helpers
Contains(seq, x) == \E i \in 1..Len(seq) : seq[i] = x

Range(seq) == {seq[i] : i \in 1..Len(seq)}

RECURSIVE LStrip(_)
LStrip(s) == IF s # <<>> /\ Head(s) \in Whitespace THEN LStrip(Tail(s)) ELSE s

RECURSIVE RStrip(_)
RStrip(s) ==
    IF s # <<>> /\ s[Len(s)] \in Whitespace
    THEN RStrip(SubSeq(s, 1, Len(s) - 1))
    ELSE s

\* str.strip()
Strip(s) == RStrip(LStrip(s))

\* dict.get(key): the key's value, here the key itself as the reference to
\* the stored thought, or None
Get(ths, key) == IF key \in DOMAIN ths THEN key ELSE None

\* defaultdict(list).__getitem__: the map after the access
Touch(sessions, sid) ==
    IF sid \in DOMAIN sessions THEN sessions ELSE sessions @@ (sid :> <<>>)

SessionThoughts(sid) ==
    SelectSeq(thought_sessions[sid], LAMBDA tid : tid \in DOMAIN thoughts)

\* -------------------------------------------------------------------- text
\* str.lower() on the letters the explored texts use
LowerOf ==
    ("A" :> "a") @@ ("B" :> "b") @@ ("C" :> "c") @@ ("D" :> "d") @@ ("E" :> "e") @@
    ("F" :> "f") @@ ("G" :> "g") @@ ("H" :> "h") @@ ("I" :> "i") @@ ("J" :> "j") @@
    ("K" :> "k") @@ ("L" :> "l") @@ ("M" :> "m") @@ ("N" :> "n") @@ ("O" :> "o") @@
    ("P" :> "p") @@ ("Q" :> "q") @@ ("R" :> "r") @@ ("S" :> "s") @@ ("T" :> "t") @@
    ("U" :> "u") @@ ("V" :> "v") @@ ("W" :> "w") @@ ("X" :> "x") @@ ("Y" :> "y") @@
    ("Z" :> "z")

Lower(s) == [i \in 1..Len(s) |-> IF s[i] \in DOMAIN LowerOf THEN LowerOf[s[i]] ELSE s[i]]

\* marker in text
In(marker, text) ==
    \E i \in 1..(Len(text) - Len(marker) + 1) :
        SubSeq(text, i, i + Len(marker) - 1) = marker

\* sum(1 for marker in markers if marker in text)
CountIn(markers, text) == Cardinality({i \in 1..Len(markers) : In(markers[i], text)})

\* text.split(): the positions at which a word starts
WordStarts(text) ==
    {i \in 1..Len(text) :
        text[i] \notin Whitespace /\ (i = 1 \/ text[i - 1] \in Whitespace)}

\* the words of text.split() with len(word) > n
LongerWordStarts(text, n) ==
    {i \in WordStarts(text) :
        i + n <= Len(text) /\ \A j \in i..(i + n) : text[j] \notin Whitespace}

SentenceEnd == {".", "!", "?"}

\* len(re.split(r'[.!?]+', text)): one piece more than runs of separators
SplitPieces(text) ==
    1 + Cardinality({i \in 1..Len(text) :
            text[i] \in SentenceEnd /\ (i = 1 \/ text[i - 1] \notin SentenceEnd)})

\* ----------------------------------------------------------------- numbers
RECURSIVE GCD(_, _)
GCD(a, b) == IF b = 0 THEN a ELSE GCD(b, a % b)

\* a float as the exact fraction n/d, d > 0, in lowest terms; rounding is
\* not modelled
Frac(n, d) ==
    LET g == GCD(IF n < 0 THEN 0 - n ELSE n, d) IN
    [num |-> n \div g, den |-> d \div g]

Zero == Frac(0, 1)

One == Frac(1, 1)

Less(a, b) == a.num * b.den < b.num * a.den

Same(a, b) == a.num * b.den = b.num * a.den

FMin(a, b) == IF Less(b, a) THEN b ELSE a

FMax(a, b) == IF Less(a, b) THEN b ELSE a

Times(a, b) == Frac(a.num * b.num, a.den * b.den)

Over(a, n) == Frac(a.num, a.den * n)

Minus(a, b) == Frac(a.num * b.den - b.num * a.den, a.den * b.den)

Abs(n) == IF n < 0 THEN 0 - n ELSE n

\* a score given in hundredths
Hundredths(h) == Frac(h, 100)

\* ---------------------------------------------------------------- catalogs
\* localization_markers.py, the entries of language "en"
AMBIGUITY_MARKERS ==
    <<<<"u", "n", "c", "l", "e", "a", "r">>,
      <<"u", "n", "d", "e", "f", "i", "n", "e", "d">>,
      <<"m", "a", "y", " ", "b", "e">>,
      <<"p", "o", "s", "s", "i", "b", "l", "y">>,
      <<"i", "f">>,
      <<"o", "r">>,
      <<"a", "m", "b", "i", "g", "u", "o", "u", "s">>,
      <<"v", "a", "g", "u", "e">>>>

EMOTIONAL_WORDS ==
    [positive |->
        <<<<"g", "o", "o", "d">>,
          <<"e", "x", "c", "e", "l", "l", "e", "n", "t">>,
          <<"g", "r", "e", "a", "t">>,
          <<"s", "u", "c", "c", "e", "s", "s">>,
          <<"j", "o", "y">>,
          <<"h", "a", "p", "p", "y">>,
          <<"p", "o", "s", "i", "t", "i", "v", "e">>,
          <<"o", "p", "t", "i", "m", "i", "s", "t", "i", "c">>>>,
     negative |->
        <<<<"b", "a", "d">>,
          <<"t", "e", "r", "r", "i", "b", "l", "e">>,
          <<"f", "a", "i", "l", "u", "r", "e">>,
          <<"s", "a", "d", "n", "e", "s", "s">>,
          <<"p", "r", "o", "b", "l", "e", "m">>,
          <<"u", "n", "h", "a", "p", "p", "y">>,
          <<"n", "e", "g", "a", "t", "i", "v", "e">>,
          <<"p", "e", "s", "s", "i", "m", "i", "s", "t", "i", "c">>>>]

\* the domains in the order of the dict
DOMAIN_KEYWORDS ==
    <<<<"programming",
        <<<<"c", "o", "d", "e">>,
          <<"p", "r", "o", "g", "r", "a", "m">>,
          <<"a", "l", "g", "o", "r", "i", "t", "h", "m">>,
          <<"s", "o", "f", "t", "w", "a", "r", "e">>,
          <<"d", "e", "v", "e", "l", "o", "p", "m", "e", "n", "t">>,
          <<"b", "u", "g">>,
          <<"f", "e", "a", "t", "u", "r", "e">>>>>>,
      <<"business",
        <<<<"m", "a", "r", "k", "e", "t", "i", "n", "g">>,
          <<"s", "a", "l", "e", "s">>,
          <<"c", "l", "i", "e", "n", "t">>,
          <<"r", "e", "v", "e", "n", "u", "e">>,
          <<"p", "r", "o", "f", "i", "t">>,
          <<"s", "t", "r", "a", "t", "e", "g", "y">>,
          <<"m", "a", "r", "k", "e", "t">>>>>>,
      <<"science",
        <<<<"s", "c", "i", "e", "n", "c", "e">>,
          <<"r", "e", "s", "e", "a", "r", "c", "h">>,
          <<"d", "a", "t", "a">>,
          <<"e", "x", "p", "e", "r", "i", "m", "e", "n", "t">>,
          <<"t", "h", "e", "o", "r", "y">>,
          <<"h", "y", "p", "o", "t", "h", "e", "s", "i", "s">>,
          <<"a", "n", "a", "l", "y", "s", "i", "s">>>>>>,
      <<"general",
        <<<<"g", "e", "n", "e", "r", "a", "l">>>>>>>>

\* the (negative, positive) pairs in the order of the list
CONTRADICTION_WORDS ==
    <<<<<<"n", "o", "t">>,
        <<"y", "e", "s">>>>,
      <<<<"n", "o">>,
        <<"y", "e", "s">>>>,
      <<<<"b", "a", "d">>,
        <<"g", "o", "o", "d">>>>,
      <<<<"i", "m", "p", "o", "s", "s", "i", "b", "l", "e">>,
        <<"p", "o", "s", "s", "i", "b", "l", "e">>>>,
      <<<<"i", "n", "c", "o", "r", "r", "e", "c", "t">>,
        <<"c", "o", "r", "r", "e", "c", "t">>>>>>

LOGICAL_CONNECTORS ==
    <<<<"t", "h", "e", "r", "e", "f", "o", "r", "e">>,
      <<"c", "o", "n", "s", "e", "q", "u", "e", "n", "t", "l", "y">>,
      <<"t", "h", "u", "s">>,
      <<"a", "s", " ", "a", " ", "r", "e", "s", "u", "l", "t">>,
      <<"h", "o", "w", "e", "v", "e", "r">>,
      <<"b", "u", "t">>,
      <<"n", "e", "v", "e", "r", "t", "h", "e", "l", "e", "s", "s">>,
      <<"o", "n", " ", "t", "h", "e", " ", "o", "t", "h", "e", "r", " ", "h", "a", "n", "d">>,
      <<"f", "i", "r", "s", "t", "l", "y">>,
      <<"s", "e", "c", "o", "n", "d", "l", "y">>,
      <<"a", "d", "d", "i", "t", "i", "o", "n", "a", "l", "l", "y">>,
      <<"m", "o", "r", "e", "o", "v", "e", "r">>>>

EVIDENCE_PATTERNS ==
    <<<<"\\", "d", "+", "%">>,
      <<"\\", "d", "+", "\\", ".", "\\", "d", "+">>,
      <<"r", "e", "s", "e", "a", "r", "c", "h">>,
      <<"d", "a", "t", "a">>,
      <<"s", "t", "a", "t", "i", "s", "t", "i", "c", "s">>,
      <<"f", "a", "c", "t">>,
      <<"e", "v", "i", "d", "e", "n", "c", "e">>,
      <<"e", "x", "a", "m", "p", "l", "e">>,
      <<"c", "a", "s", "e">>>>

UNCERTAINTY_MARKERS ==
    <<<<"p", "o", "s", "s", "i", "b", "l", "y">>,
      <<"p", "r", "o", "b", "a", "b", "l", "y">>,
      <<"s", "e", "e", "m", "s">>,
      <<"m", "i", "g", "h", "t", " ", "b", "e">>,
      <<"I", " ", "a", "s", "s", "u", "m", "e">>>>

CERTAINTY_MARKERS ==
    <<<<"d", "e", "f", "i", "n", "i", "t", "e", "l", "y">>,
      <<"s", "u", "r", "e", "l", "y">>,
      <<"u", "n", "d", "o", "u", "b", "t", "e", "d", "l", "y">>,
      <<"o", "b", "v", "i", "o", "u", "s", "l", "y">>,
      <<"u", "n", "q", "u", "e", "s", "t", "i", "o", "n", "a", "b", "l", "y">>>>

\* the biases in the order of the dict
COGNITIVE_BIAS_MARKERS ==
    <<[name |-> "confirmation bias",
       markers |->
        <<<<"a", "l", "w", "a", "y", "s">>,
          <<"n", "e", "v", "e", "r">>,
          <<"a", "b", "s", "o", "l", "u", "t", "e", "l", "y">>,
          <<"d", "e", "f", "i", "n", "i", "t", "e", "l", "y">>,
          <<"u", "n", "d", "o", "u", "b", "t", "e", "d", "l", "y">>,
          <<"u", "n", "q", "u", "e", "s", "t", "i", "o", "n", "a", "b", "l", "y">>,
          <<"o", "b", "v", "i", "o", "u", "s", "l", "y">>>>,
       context |->
        <<<<"a", "s", "s", "e", "r", "t", "i", "o", "n">>,
          <<"w", "i", "t", "h", "o", "u", "t", " ", "e", "v", "i", "d", "e", "n", "c", "e">>>>],
      [name |-> "black-and-white thinking",
       markers |->
        <<<<"e", "i", "t", "h", "e", "r">>,
          <<"o", "r">>,
          <<"o", "n", "l", "y">>,
          <<"e", "x", "c", "l", "u", "s", "i", "v", "e", "l", "y">>,
          <<"a", "l", "l">>,
          <<"n", "o", "t", "h", "i", "n", "g">>,
          <<"c", "o", "m", "p", "l", "e", "t", "e", "l", "y">>>>,
       context |->
        <<<<"e", "x", "t", "r", "e", "m", "e", "s">>,
          <<"l", "a", "c", "k", " ", "o", "f", " ", "n", "u", "a", "n", "c", "e">>>>],
      [name |-> "emotional reasoning",
       markers |->
        <<<<"f", "e", "e", "l">>,
          <<"s", "e", "e", "m", "s">>,
          <<"s", "e", "n", "s", "e">>,
          <<"t", "h", "i", "n", "k">>,
          <<"b", "e", "l", "i", "e", "v", "e">>,
          <<"h", "o", "p", "e">>,
          <<"f", "e", "a", "r">>>>,
       context |->
        <<<<"e", "m", "o", "t", "i", "o", "n", "s">>,
          <<"w", "i", "t", "h", "o", "u", "t", " ", "f", "a", "c", "t", "s">>>>],
      [name |-> "hasty generalization",
       markers |->
        <<<<"a", "l", "l">>,
          <<"e", "v", "e", "r", "y">>,
          <<"n", "o", " ", "o", "n", "e">>,
          <<"a", "l", "w", "a", "y", "s">>,
          <<"n", "e", "v", "e", "r">>,
          <<"e", "v", "e", "r", "y", "w", "h", "e", "r", "e">>,
          <<"n", "o", "w", "h", "e", "r", "e">>>>,
       context |->
        <<<<"g", "e", "n", "e", "r", "a", "l", "i", "z", "a", "t", "i", "o", "n">>,
          <<"f", "e", "w", " ", "e", "x", "a", "m", "p", "l", "e", "s">>>>]>>

\* the strategy catalogs: (category, markers) in the order of the dict
CRITICAL_MARKERS ==
    <<<<<<"a", "r", "g", "u", "m", "e", "n", "t", "a", "t", "i", "o", "n">>,
        <<<<"b", "e", "c", "a", "u", "s", "e">>,
          <<"t", "h", "e", "r", "e", "f", "o", "r", "e">>,
          <<"t", "h", "u", "s">>,
          <<"t", "h", "i", "s", " ", "p", "r", "o", "v", "e", "s">>,
          <<"b", "a", "s", "e", "d", " ", "o", "n">>,
          <<"s", "t", "e", "m", "m", "i", "n", "g", " ", "f", "r", "o", "m">>>>>>,
      <<<<"e", "v", "a", "l", "u", "a", "t", "i", "o", "n">>,
        <<<<"r", "e", "l", "i", "a", "b", "i", "l", "i", "t", "y">>,
          <<"v", "a", "l", "i", "d", "i", "t", "y">>,
          <<"j", "u", "s", "t", "i", "f", "i", "c", "a", "t", "i", "o", "n">>,
          <<"v", "e", "r", "i", "f", "i", "c", "a", "t", "i", "o", "n">>,
          <<"c", "o", "n", "f", "i", "r", "m", "a", "t", "i", "o", "n">>,
          <<"s", "u", "b", "s", "t", "a", "n", "t", "i", "a", "t", "i", "o", "n">>>>>>,
      <<<<"a", "n", "a", "l", "y", "s", "i", "s">>,
        <<<<"c", "o", "n", "s", "i", "d", "e", "r">>,
          <<"a", "n", "a", "l", "y", "z", "e">>,
          <<"i", "n", "v", "e", "s", "t", "i", "g", "a", "t", "e">>,
          <<"b", "r", "e", "a", "k", " ", "d", "o", "w", "n">>,
          <<"e", "x", "a", "m", "i", "n", "e">>,
          <<"e", "v", "a", "l", "u", "a", "t", "e">>>>>>,
      <<<<"r", "e", "f", "u", "t", "a", "t", "i", "o", "n">>,
        <<<<"r", "e", "f", "u", "t", "e", "s">>,
          <<"c", "o", "n", "t", "r", "a", "d", "i", "c", "t", "s">>,
          <<"i", "n", "c", "o", "n", "s", "i", "s", "t", "e", "n", "t", " ", "w", "i", "t", "h">>,
          <<"r", "a", "i", "s", "e", "s", " ", "d", "o", "u", "b", "t", "s">>,
          <<"r", "e", "q", "u", "i", "r", "e", "s", " ", "v", "e", "r", "i", "f", "i", "c", "a", "t", "i", "o", "n">>>>>>,
      <<<<"s", "t", "r", "u", "c", "t", "u", "r", "e", "_", "k", "e", "y", "w", "o", "r", "d", "s">>,
        <<<<<<"i", "f">>, <<"t", "h", "e", "n">>>>,
          <<<<"a", "l", "t", "h", "o", "u", "g", "h">>, <<"b", "u", "t">>>>,
          <<<<"d", "e", "s", "p", "i", "t", "e">>, <<"y", "e", "t">>>>>>>>>>

SYSTEMIC_MARKERS ==
    <<<<<<"i", "n", "t", "e", "r", "c", "o", "n", "n", "e", "c", "t", "i", "o", "n", "s">>,
        <<<<"i", "n", "t", "e", "r", "c", "o", "n", "n", "e", "c", "t", "i", "o", "n">>,
          <<"l", "i", "n", "k", " ", "b", "e", "t", "w", "e", "e", "n">>,
          <<"a", "f", "f", "e", "c", "t", "s">>,
          <<"d", "e", "p", "e", "n", "d", "s", " ", "o", "n">>,
          <<"c", "o", "m", "p", "o", "n", "e", "n", "t", "s">>,
          <<"s", "y", "s", "t", "e", "m", " ", "e", "l", "e", "m", "e", "n", "t", "s">>>>>>,
      <<<<"s", "t", "r", "u", "c", "t", "u", "r", "e">>,
        <<<<"s", "t", "r", "u", "c", "t", "u", "r", "e">>,
          <<"o", "r", "g", "a", "n", "i", "z", "a", "t", "i", "o", "n">>,
          <<"h", "i", "e", "r", "a", "r", "c", "h", "y">>,
          <<"s", "u", "b", "s", "y", "s", "t", "e", "m">>>>>>,
      <<<<"d", "y", "n", "a", "m", "i", "c", "s">>,
        <<<<"c", "y", "c", "l", "e">>,
          <<"f", "e", "e", "d", "b", "a", "c", "k", " ", "l", "o", "o", "p">>,
          <<"s", "y", "s", "t", "e", "m", " ", "b", "e", "h", "a", "v", "i", "o", "r">>,
          <<"e", "m", "e", "r", "g", "e", "n", "c", "e">>>>>>,
      <<<<"b", "o", "u", "n", "d", "a", "r", "i", "e", "s">>,
        <<<<"s", "y", "s", "t", "e", "m", " ", "b", "o", "u", "n", "d", "a", "r", "i", "e", "s">>,
          <<"e", "x", "t", "e", "r", "n", "a", "l", " ", "e", "n", "v", "i", "r", "o", "n", "m", "e", "n", "t">>,
          <<"i", "n", "t", "e", "r", "n", "a", "l", " ", "f", "a", "c", "t", "o", "r", "s">>>>>>,
      <<<<"c", "a", "u", "s", "a", "l", "_", "k", "e", "y", "w", "o", "r", "d", "s">>,
        <<<<"c", "a", "u", "s", "e">>,
          <<"e", "f", "f", "e", "c", "t">>,
          <<"l", "e", "a", "d", "s", " ", "t", "o">>>>>>>>

LATERAL_MARKERS ==
    <<<<<<"a", "n", "a", "l", "o", "g", "i", "e", "s">>,
        <<<<"a", "n", "a", "l", "o", "g", "y">>,
          <<"s", "i", "m", "i", "l", "a", "r", " ", "t", "o">>,
          <<"a", "s", " ", "i", "f">>,
          <<"m", "e", "t", "a", "p", "h", "o", "r">>>>>>,
      <<<<"r", "e", "-", "f", "r", "a", "m", "i", "n", "g">>,
        <<<<"r", "e", "-", "e", "v", "a", "l", "u", "a", "t", "e">>,
          <<"n", "e", "w", " ", "p", "e", "r", "s", "p", "e", "c", "t", "i", "v", "e">>,
          <<"u", "n", "c", "o", "n", "v", "e", "n", "t", "i", "o", "n", "a", "l">>,
          <<"d", "i", "f", "f", "e", "r", "e", "n", "t", " ", "v", "i", "e", "w">>>>>>,
      <<<<"p", "r", "o", "v", "o", "c", "a", "t", "i", "o", "n">>,
        <<<<"w", "h", "a", "t", " ", "i", "f">>,
          <<"i", "m", "a", "g", "i", "n", "e">>,
          <<"a", "n", "d", " ", "i", "f">>>>>>,
      <<<<"r", "a", "n", "d", "o", "m", " ", "a", "s", "s", "o", "c", "i", "a", "t", "i", "o", "n", "s">>,
        <<<<"r", "a", "n", "d", "o", "m", " ", "w", "o", "r", "d">>,
          <<"u", "n", "r", "e", "l", "a", "t", "e", "d">>,
          <<"s", "u", "d", "d", "e", "n", " ", "i", "d", "e", "a">>>>>>,
      <<<<"q", "u", "e", "s", "t", "i", "o", "n", "_", "p", "h", "r", "a", "s", "e", "s">>,
        <<<<"w", "h", "y", " ", "n", "o", "t">>,
          <<"w", "h", "a", "t", " ", "i", "f">>>>>>>>

STRATEGIC_MARKERS ==
    <<<<<<"g", "o", "a", "l", "s">>,
        <<<<"g", "o", "a", "l">>,
          <<"o", "b", "j", "e", "c", "t", "i", "v", "e">>,
          <<"o", "u", "t", "c", "o", "m", "e">>,
          <<"a", "c", "h", "i", "e", "v", "e">>>>>>,
      <<<<"p", "l", "a", "n", "n", "i", "n", "g">>,
        <<<<"p", "l", "a", "n">>,
          <<"s", "t", "r", "a", "t", "e", "g", "y">>,
          <<"s", "t", "a", "g", "e", "s">>,
          <<"a", "c", "t", "i", "o", "n", "s">>,
          <<"s", "t", "e", "p", "s">>>>>>,
      <<<<"f", "u", "t", "u", "r", "e">>,
        <<<<"l", "o", "n", "g", "-", "t", "e", "r", "m">>,
          <<"p", "e", "r", "s", "p", "e", "c", "t", "i", "v", "e">>,
          <<"f", "u", "t", "u", "r", "e">>,
          <<"f", "o", "r", "e", "c", "a", "s", "t">>,
          <<"s", "c", "e", "n", "a", "r", "i", "o">>>>>>,
      <<<<"r", "e", "s", "o", "u", "r", "c", "e", "s">>,
        <<<<"r", "e", "s", "o", "u", "r", "c", "e", "s">>,
          <<"b", "u", "d", "g", "e", "t">>,
          <<"t", "i", "m", "e">>,
          <<"p", "e", "o", "p", "l", "e">>,
          <<"a", "s", "s", "e", "t", "s">>>>>>,
      <<<<"r", "i", "s", "k", "s", "_", "o", "p", "p", "o", "r", "t", "u", "n", "i", "t", "i", "e", "s">>,
        <<<<"r", "i", "s", "k">>,
          <<"o", "p", "p", "o", "r", "t", "u", "n", "i", "t", "y">>,
          <<"t", "h", "r", "e", "a", "t">>,
          <<"p", "o", "t", "e", "n", "t", "i", "a", "l">>>>>>,
      <<<<"p", "r", "i", "o", "r", "i", "t", "y", "_", "k", "e", "y", "w", "o", "r", "d", "s">>,
        <<<<"p", "r", "i", "o", "r", "i", "t", "y">>,
          <<"c", "h", "o", "i", "c", "e">>>>>>>>

EMPATHETIC_MARKERS ==
    <<<<<<"p", "e", "r", "s", "p", "e", "c", "t", "i", "v", "e">>,
        <<<<"v", "i", "e", "w", "p", "o", "i", "n", "t">>,
          <<"p", "o", "s", "i", "t", "i", "o", "n">>,
          <<"t", "h", "r", "o", "u", "g", "h", " ", "s", "o", "m", "e", "o", "n", "e", "'", "s", " ", "e", "y", "e", "s">>>>>>,
      <<<<"f", "e", "e", "l", "i", "n", "g", "s">>,
        <<<<"f", "e", "e", "l", "i", "n", "g", "s">>,
          <<"e", "m", "o", "t", "i", "o", "n", "s">>,
          <<"e", "x", "p", "e", "r", "i", "e", "n", "c", "e", "s">>,
          <<"s", "e", "n", "s", "a", "t", "i", "o", "n", "s">>>>>>,
      <<<<"m", "o", "t", "i", "v", "a", "t", "i", "o", "n">>,
        <<<<"m", "o", "t", "i", "v", "a", "t", "i", "o", "n">>,
          <<"n", "e", "e", "d", "s">>,
          <<"d", "e", "s", "i", "r", "e", "s">>,
          <<"w", "h", "y">>>>>>,
      <<<<"u", "n", "d", "e", "r", "s", "t", "a", "n", "d", "i", "n", "g">>,
        <<<<"u", "n", "d", "e", "r", "s", "t", "a", "n", "d">>,
          <<"s", "e", "e">>,
          <<"r", "e", "a", "l", "i", "z", "e">>,
          <<"i", "m", "a", "g", "i", "n", "e">>>>>>,
      <<<<"p", "r", "o", "n", "o", "u", "n", "s">>,
        <<<<"w", "e">>,
          <<"t", "h", "e", "y">>,
          <<"t", "h", "e", "i", "r">>>>>>,
      <<<<"p", "e", "o", "p", "l", "e", "_", "r", "e", "f", "s">>,
        <<<<"p", "e", "o", "p", "l", "e">>,
          <<"c", "l", "i", "e", "n", "t", "s">>,
          <<"u", "s", "e", "r", "s">>>>>>>>

ABSTRACT_MARKERS ==
    <<<<<<"c", "o", "n", "c", "e", "p", "t", "s">>,
        <<<<"c", "o", "n", "c", "e", "p", "t">>,
          <<"i", "d", "e", "a">>,
          <<"p", "r", "i", "n", "c", "i", "p", "l", "e">>,
          <<"t", "h", "e", "o", "r", "y">>,
          <<"m", "o", "d", "e", "l">>>>>>,
      <<<<"g", "e", "n", "e", "r", "a", "l", "i", "z", "a", "t", "i", "o", "n">>,
        <<<<"g", "e", "n", "e", "r", "a", "l", "i", "z", "a", "t", "i", "o", "n">>,
          <<"a", "b", "s", "t", "r", "a", "c", "t", "i", "o", "n">>,
          <<"g", "e", "n", "e", "r", "a", "l">>,
          <<"u", "n", "i", "v", "e", "r", "s", "a", "l">>>>>>,
      <<<<"c", "l", "a", "s", "s", "i", "f", "i", "c", "a", "t", "i", "o", "n">>,
        <<<<"c", "l", "a", "s", "s", "i", "f", "i", "c", "a", "t", "i", "o", "n">>,
          <<"c", "a", "t", "e", "g", "o", "r", "y">>,
          <<"t", "y", "p", "e">>,
          <<"k", "i", "n", "d">>>>>>,
      <<<<"s", "y", "m", "b", "o", "l", "s">>,
        <<<<"s", "y", "m", "b", "o", "l">>,
          <<"s", "i", "g", "n">>,
          <<"r", "e", "p", "r", "e", "s", "e", "n", "t", "a", "t", "i", "o", "n">>>>>>,
      <<<<"s", "p", "e", "c", "i", "f", "i", "c", "_", "e", "x", "a", "m", "p", "l", "e", "s", "_", "n", "e", "g", "a", "t", "o", "r", "s">>,
        <<<<"f", "o", "r", " ", "e", "x", "a", "m", "p", "l", "e">>,
          <<"s", "p", "e", "c", "i", "f", "i", "c", "a", "l", "l", "y">>>>>>>>

PRACTICAL_MARKERS ==
    <<<<<<"a", "c", "t", "i", "o", "n">>,
        <<<<"a", "c", "t", "i", "o", "n">>,
          <<"i", "m", "p", "l", "e", "m", "e", "n", "t", "a", "t", "i", "o", "n">>,
          <<"a", "p", "p", "l", "i", "c", "a", "t", "i", "o", "n">>,
          <<"d", "o">>,
          <<"e", "x", "e", "c", "u", "t", "e">>>>>>,
      <<<<"r", "e", "s", "u", "l", "t">>,
        <<<<"r", "e", "s", "u", "l", "t">>,
          <<"e", "f", "f", "e", "c", "t">>,
          <<"b", "e", "n", "e", "f", "i", "t">>,
          <<"a", "d", "v", "a", "n", "t", "a", "g", "e">>,
          <<"a", "c", "h", "i", "e", "v", "e", "m", "e", "n", "t">>>>>>,
      <<<<"r", "e", "s", "o", "u", "r", "c", "e", "s">>,
        <<<<"r", "e", "s", "o", "u", "r", "c", "e", "s">>,
          <<"b", "u", "d", "g", "e", "t">>,
          <<"t", "i", "m", "e">>,
          <<"t", "o", "o", "l", "s">>,
          <<"m", "a", "t", "e", "r", "i", "a", "l", "s">>>>>>,
      <<<<"c", "o", "n", "s", "t", "r", "a", "i", "n", "t", "s">>,
        <<<<"c", "o", "n", "s", "t", "r", "a", "i", "n", "t">>,
          <<"o", "b", "s", "t", "a", "c", "l", "e">>,
          <<"d", "i", "f", "f", "i", "c", "u", "l", "t", "y">>,
          <<"o", "p", "p", "o", "r", "t", "u", "n", "i", "t", "y">>>>>>,
      <<<<"a", "c", "t", "i", "o", "n", "_", "v", "e", "r", "b", "s">>,
        <<<<"c", "r", "e", "a", "t", "e">>,
          <<"d", "e", "v", "e", "l", "o", "p">>,
          <<"i", "m", "p", "l", "e", "m", "e", "n", "t">>,
          <<"o", "p", "t", "i", "m", "i", "z", "e">>,
          <<"i", "m", "p", "r", "o", "v", "e">>>>>>>>

INTEGRATIVE_MARKERS ==
    <<<<<<"s", "y", "n", "t", "h", "e", "s", "i", "s">>,
        <<<<"i", "n", "t", "e", "g", "r", "a", "t", "i", "o", "n">>,
          <<"s", "y", "n", "t", "h", "e", "s", "i", "s">>,
          <<"c", "o", "m", "b", "i", "n", "a", "t", "i", "o", "n">>,
          <<"f", "u", "s", "i", "o", "n">>,
          <<"h", "o", "l", "i", "s", "t", "i", "c">>,
          <<"u", "n", "i", "f", "i", "e", "d">>,
          <<"m", "e", "r", "g", "e", "r">>>>>>,
      <<<<"d", "i", "v", "e", "r", "s", "i", "t", "y">>,
        <<<<"d", "i", "f", "f", "e", "r", "e", "n", "t", " ", "v", "i", "e", "w", "p", "o", "i", "n", "t", "s">>,
          <<"d", "i", "f", "f", "e", "r", "e", "n", "t", " ", "a", "p", "p", "r", "o", "a", "c", "h", "e", "s">>,
          <<"m", "u", "l", "t", "i", "f", "a", "c", "e", "t", "e", "d">>,
          <<"d", "i", "v", "e", "r", "s", "i", "t", "y">>,
          <<"i", "n", "c", "l", "u", "d", "e", "s">>>>>>,
      <<<<"b", "a", "l", "a", "n", "c", "e">>,
        <<<<"b", "a", "l", "a", "n", "c", "e">>,
          <<"h", "a", "r", "m", "o", "n", "y">>,
          <<"c", "o", "m", "p", "r", "o", "m", "i", "s", "e">>,
          <<"c", "o", "o", "r", "d", "i", "n", "a", "t", "i", "o", "n">>,
          <<"o", "p", "t", "i", "m", "a", "l", " ", "c", "o", "m", "b", "i", "n", "a", "t", "i", "o", "n">>>>>>,
      <<<<"b", "o", "n", "u", "s", "_", "k", "e", "y", "w", "o", "r", "d", "s">>,
        <<<<"w", "i", "n", "-", "w", "i", "n">>,
          <<"s", "y", "n", "e", "r", "g", "y">>>>>>>>

EVOLUTIONARY_MARKERS ==
    <<<<<<"d", "e", "v", "e", "l", "o", "p", "m", "e", "n", "t">>,
        <<<<"d", "e", "v", "e", "l", "o", "p", "m", "e", "n", "t">>,
          <<"e", "v", "o", "l", "u", "t", "i", "o", "n">>,
          <<"p", "r", "o", "g", "r", "e", "s", "s">>,
          <<"g", "r", "o", "w", "t", "h">>,
          <<"c", "h", "a", "n", "g", "e">>>>>>,
      <<<<"a", "d", "a", "p", "t", "a", "t", "i", "o", "n">>,
        <<<<"a", "d", "a", "p", "t", "a", "t", "i", "o", "n">>,
          <<"a", "d", "j", "u", "s", "t", "m", "e", "n", "t">>,
          <<"f", "l", "e", "x", "i", "b", "i", "l", "i", "t", "y">>,
          <<"r", "e", "s", "p", "o", "n", "s", "e", " ", "t", "o", " ", "c", "h", "a", "n", "g", "e", "s">>>>>>,
      <<<<"i", "t", "e", "r", "a", "t", "i", "o", "n">>,
        <<<<"i", "t", "e", "r", "a", "t", "i", "o", "n">>,
          <<"r", "e", "p", "e", "t", "i", "t", "i", "o", "n">>,
          <<"c", "y", "c", "l", "e">>,
          <<"g", "r", "a", "d", "u", "a", "l", "l", "y">>,
          <<"p", "h", "a", "s", "e", "s">>>>>>,
      <<<<"f", "e", "e", "d", "b", "a", "c", "k">>,
        <<<<"f", "e", "e", "d", "b", "a", "c", "k">>,
          <<"l", "e", "s", "s", "o", "n", "s">>,
          <<"e", "x", "p", "e", "r", "i", "e", "n", "c", "e">>,
          <<"c", "o", "r", "r", "e", "c", "t", "i", "o", "n">>>>>>,
      <<<<"b", "o", "n", "u", "s", "_", "k", "e", "y", "w", "o", "r", "d", "s">>,
        <<<<"l", "e", "a", "r", "n", "i", "n", "g">>,
          <<"i", "m", "p", "r", "o", "v", "e", "m", "e", "n", "t">>>>>>>>

CONVERGENT_MARKERS ==
    <<<<<<"c", "h", "o", "i", "c", "e">>,
        <<<<"c", "h", "o", "i", "c", "e">>,
          <<"d", "e", "c", "i", "s", "i", "o", "n">>,
          <<"o", "p", "t", "i", "m", "a", "l">>,
          <<"b", "e", "s", "t">>,
          <<"s", "i", "n", "g", "l", "e">>>>>>,
      <<<<"c", "r", "i", "t", "e", "r", "i", "a">>,
        <<<<"c", "r", "i", "t", "e", "r", "i", "a">>,
          <<"e", "v", "a", "l", "u", "a", "t", "i", "o", "n">>,
          <<"c", "o", "m", "p", "a", "r", "i", "s", "o", "n">>,
          <<"a", "n", "a", "l", "y", "s", "i", "s">>,
          <<"f", "i", "l", "t", "e", "r">>>>>>,
      <<<<"n", "a", "r", "r", "o", "w", "i", "n", "g">>,
        <<<<"n", "a", "r", "r", "o", "w", "i", "n", "g">>,
          <<"f", "o", "c", "u", "s">>,
          <<"s", "p", "e", "c", "i", "f", "i", "c">>,
          <<"p", "a", "r", "t", "i", "c", "u", "l", "a", "r">>>>>>,
      <<<<"c", "o", "n", "c", "l", "u", "s", "i", "o", "n">>,
        <<<<"c", "o", "n", "c", "l", "u", "s", "i", "o", "n">>,
          <<"i", "n", "f", "e", "r", "e", "n", "c", "e">>,
          <<"s", "u", "m", "m", "a", "r", "y">>,
          <<"r", "e", "s", "u", "l", "t">>>>>>,
      <<<<"l", "o", "g", "i", "c", "a", "l", "_", "c", "o", "n", "n", "e", "c", "t", "o", "r", "s", "_", "l", "e", "a", "d", "i", "n", "g", "_", "t", "o", "_", "c", "o", "n", "c", "l", "u", "s", "i", "o", "n">>,
        <<<<"t", "h", "u", "s">>,
          <<"t", "h", "e", "r", "e", "f", "o", "r", "e">>,
          <<"c", "o", "n", "s", "e", "q", "u", "e", "n", "t", "l", "y">>>>>>>>

DIVERGENT_MARKERS ==
    <<<<<<"g", "e", "n", "e", "r", "a", "t", "i", "o", "n">>,
        <<<<"g", "e", "n", "e", "r", "a", "t", "i", "o", "n">>,
          <<"i", "d", "e", "a">>,
          <<"o", "p", "t", "i", "o", "n">>,
          <<"a", "l", "t", "e", "r", "n", "a", "t", "i", "v", "e">>,
          <<"s", "u", "g", "g", "e", "s", "t", "i", "o", "n">>>>>>,
      <<<<"e", "x", "p", "a", "n", "s", "i", "o", "n">>,
        <<<<"e", "x", "p", "a", "n", "s", "i", "o", "n">>,
          <<"m", "u", "l", "t", "i", "t", "u", "d", "e">>,
          <<"v", "a", "r", "i", "e", "t", "y">>,
          <<"m", "o", "r", "e">>,
          <<"n", "e", "w">>>>>>,
      <<<<"b", "r", "a", "i", "n", "s", "t", "o", "r", "m", "i", "n", "g">>,
        <<<<"b", "r", "a", "i", "n", "s", "t", "o", "r", "m", "i", "n", "g">>,
          <<"c", "r", "e", "a", "t", "i", "v", "i", "t", "y">>,
          <<"u", "n", "c", "o", "n", "v", "e", "n", "t", "i", "o", "n", "a", "l">>,
          <<"c", "r", "e", "a", "t", "i", "v", "e">>>>>>,
      <<<<"e", "x", "p", "l", "o", "r", "a", "t", "i", "o", "n">>,
        <<<<"e", "x", "p", "l", "o", "r", "a", "t", "i", "o", "n">>,
          <<"s", "t", "u", "d", "y">>,
          <<"s", "e", "a", "r", "c", "h">>,
          <<"d", "i", "s", "c", "o", "v", "e", "r", "y">>>>>>,
      <<<<"q", "u", "e", "s", "t", "i", "o", "n", "_", "p", "h", "r", "a", "s", "e", "s">>,
        <<<<"h", "o", "w", " ", "e", "l", "s", "e", " ", "c", "a", "n">>,
          <<"w", "h", "a", "t", " ", "i", "f">>>>>>>>

REFLECTIVE_MARKERS ==
    <<<<<<"s", "e", "l", "f", "_", "a", "n", "a", "l", "y", "s", "i", "s">>,
        <<<<"r", "e", "f", "l", "e", "c", "t", "i", "o", "n">>,
          <<"s", "e", "l", "f", "-", "a", "n", "a", "l", "y", "s", "i", "s">>,
          <<"c", "o", "n", "t", "e", "m", "p", "l", "a", "t", "i", "o", "n">>,
          <<"m", "y", " ", "e", "x", "p", "e", "r", "i", "e", "n", "c", "e">>,
          <<"I", " ", "t", "h", "i", "n", "k">>>>>>,
      <<<<"l", "e", "s", "s", "o", "n", "s">>,
        <<<<"l", "e", "s", "s", "o", "n">>,
          <<"c", "o", "n", "c", "l", "u", "s", "i", "o", "n">>,
          <<"e", "x", "p", "e", "r", "i", "e", "n", "c", "e">>,
          <<"e", "x", "t", "r", "a", "c", "t">>,
          <<"l", "e", "a", "r", "n">>>>>>,
      <<<<"p", "r", "o", "c", "e", "s", "s">>,
        <<<<"t", "h", "i", "n", "k", "i", "n", "g", " ", "p", "r", "o", "c", "e", "s", "s">>,
          <<"h", "o", "w", " ", "I", " ", "t", "h", "o", "u", "g", "h", "t">>,
          <<"m", "y", " ", "a", "p", "p", "r", "o", "a", "c", "h">>,
          <<"s", "t", "r", "a", "t", "e", "g", "y">>>>>>,
      <<<<"r", "e", "a", "s", "s", "e", "s", "s", "m", "e", "n", "t">>,
        <<<<"r", "e", "a", "s", "s", "e", "s", "s", "m", "e", "n", "t">>,
          <<"r", "e", "-", "e", "v", "a", "l", "u", "a", "t", "i", "o", "n">>,
          <<"a", "d", "j", "u", "s", "t", "m", "e", "n", "t">>,
          <<"c", "h", "a", "n", "g", "e", " ", "o", "f", " ", "m", "i", "n", "d">>>>>>,
      <<<<"b", "o", "n", "u", "s", "_", "k", "e", "y", "w", "o", "r", "d", "s">>,
        <<<<"f", "u", "t", "u", "r", "e", " ", "i", "m", "p", "r", "o", "v", "e", "m", "e", "n", "t">>,
          <<"r", "e", "a", "p", "p", "l", "i", "c", "a", "t", "i", "o", "n">>>>>>>>

\* ---------------------------------------------------------------- analysis
Digit == {"0", "1", "2", "3", "4", "5", "6", "7", "8", "9"}

\* re.search(pattern, text) for the patterns of EVIDENCE_PATTERNS: \d+%,
\* \d+\.\d+ and plain words
Search(pattern, text) ==
    IF pattern = <<"\\", "d", "+", "%">>
    THEN \E i \in 1..(Len(text) - 1) : text[i] \in Digit /\ text[i + 1] = "%"
    ELSE IF pattern = <<"\\", "d", "+", "\\", ".", "\\", "d", "+">>
    THEN \E i \in 1..(Len(text) - 2) :
            text[i] \in Digit /\ text[i + 1] = "." /\ text[i + 2] \in Digit
    ELSE In(pattern, text)

\* the word of text.split() that starts at position i
WordAt(text, i) ==
    SubSeq(text, i,
           CHOOSE j \in i..Len(text) :
               /\ \A k \in i..j : text[k] \notin Whitespace
               /\ j = Len(text) \/ text[j + 1] \in Whitespace)

\* set(text.split())
Words(text) == {WordAt(text, i) : i \in WordStarts(text)}

\* len([s for s in re.split(r'[.!?]+', thought) if s.strip()]): the pieces
\* that hold a character other than whitespace, counted at that character
SentenceCount(text) ==
    LET Filling(i) == text[i] \notin Whitespace \cup SentenceEnd IN
    Cardinality({i \in 1..Len(text) :
        /\ Filling(i)
        /\ \A k \in 1..(i - 1) :
              Filling(k) => \E x \in (k + 1)..(i - 1) : text[x] \in SentenceEnd})

EndsWith(s, suffix) ==
    Len(suffix) <= Len(s) /\ SubSeq(s, Len(s) - Len(suffix) + 1, Len(s)) = suffix

\* markers_data.get(key): the markers of the category, or None
MarkersOf(markers_data, key) ==
    LET hits == {i \in 1..Len(markers_data) : markers_data[i][1] = key} IN
    IF hits = {} THEN None ELSE markers_data[CHOOSE i \in hits : TRUE][2]

\* any(marker in text for marker in markers)
AnyIn(markers, text) == \E i \in 1..Len(markers) : In(markers[i], text)

\* _analyze_specific_strategy, line 384: the categories the loop skips
Skipped(category) ==
    \/ EndsWith(category, <<"_", "k", "e", "y", "w", "o", "r", "d", "s">>)
    \/ EndsWith(category, <<"_", "p", "h", "r", "a", "s", "e", "s">>)
    \/ EndsWith(category, <<"_", "n", "e", "g", "a", "t", "o", "r", "s">>)
    \/ EndsWith(category, <<"_", "v", "e", "r", "b", "s">>)
    \/ category = <<"p", "r", "o", "n", "o", "u", "n", "s">>
    \/ category = <<"p", "e", "o", "p", "l", "e", "_", "r", "e", "f", "s">>

\* _analyze_specific_strategy, lines 383-388: the marker count of every
\* category that is not skipped
CategoryCounts(thought, markers_data) ==
    LET regular == SelectSeq(markers_data, LAMBDA e : ~Skipped(e[1])) IN
    [i \in 1..Len(regular) |-> CountIn(regular[i][2], Lower(thought))]

\* _analyze_specific_strategy, lines 390-399, in hundredths; bonus is the
\* keyword argument the strategy's wrapper passes and key the category it
\* reads the argument from
BonusScore(thought, markers_data, bonus, key) ==
    LET thought_lower == Lower(thought)
        words == MarkersOf(markers_data, key)
    IN CASE bonus = "bonus_structure_keywords" ->
              IF \E i \in 1..Len(words) :
                    In(words[i][1], thought_lower) /\ In(words[i][2], thought_lower)
              THEN 20 ELSE 0
         [] bonus = "bonus_question_phrases" ->
              IF AnyIn(words, thought_lower) THEN 15 ELSE 0
         [] bonus = "bonus_people_refs" ->
              IF /\ AnyIn(MarkersOf(markers_data, <<"p", "r", "o", "n", "o", "u", "n", "s">>), thought_lower)
                 /\ AnyIn(words, thought_lower)
              THEN 10 ELSE 0
         [] bonus = "bonus_specific_examples_negators" ->
              IF /\ words # <<>>
                 /\ \A i \in 1..Len(thought) : thought[i] \notin Digit
                 /\ ~AnyIn(words, thought_lower)
              THEN 10 ELSE 0
         [] bonus = "bonus_keywords" ->
              IF AnyIn(words, thought_lower)
              THEN IF Contains(words, <<"w", "i", "n", "-", "w", "i", "n">>)
                      \/ Contains(words, <<"s", "y", "n", "e", "r", "g", "y">>)
                   THEN 15 ELSE 10
              ELSE 0
         [] OTHER ->
              IF AnyIn(words, thought_lower) THEN 10 ELSE 0

\* the dispatch of lines 339-350 and the wrappers of lines 404-439: the
\* metric a strategy fills, its catalog and its bonus argument
StrategyAnalysis ==
    ("critical" :> [field |-> "critical_thinking_score", markers_data |-> CRITICAL_MARKERS,
        bonus |-> "bonus_structure_keywords",
        key |-> <<"s", "t", "r", "u", "c", "t", "u", "r", "e", "_", "k", "e", "y", "w", "o", "r", "d", "s">>]) @@
    ("systemic" :> [field |-> "systemic_thinking_score", markers_data |-> SYSTEMIC_MARKERS,
        bonus |-> "bonus_causal_keywords",
        key |-> <<"c", "a", "u", "s", "a", "l", "_", "k", "e", "y", "w", "o", "r", "d", "s">>]) @@
    ("lateral" :> [field |-> "lateral_thinking_score", markers_data |-> LATERAL_MARKERS,
        bonus |-> "bonus_question_phrases",
        key |-> <<"q", "u", "e", "s", "t", "i", "o", "n", "_", "p", "h", "r", "a", "s", "e", "s">>]) @@
    ("strategic" :> [field |-> "strategic_score", markers_data |-> STRATEGIC_MARKERS,
        bonus |-> "bonus_priority_keywords",
        key |-> <<"p", "r", "i", "o", "r", "i", "t", "y", "_", "k", "e", "y", "w", "o", "r", "d", "s">>]) @@
    ("empathetic" :> [field |-> "empathy_score", markers_data |-> EMPATHETIC_MARKERS,
        bonus |-> "bonus_people_refs",
        key |-> <<"p", "e", "o", "p", "l", "e", "_", "r", "e", "f", "s">>]) @@
    ("abstract" :> [field |-> "abstraction_score", markers_data |-> ABSTRACT_MARKERS,
        bonus |-> "bonus_specific_examples_negators",
        key |-> <<"s", "p", "e", "c", "i", "f", "i", "c", "_", "e", "x", "a", "m", "p", "l", "e", "s", "_", "n", "e", "g", "a", "t", "o", "r", "s">>]) @@
    ("practical" :> [field |-> "practicality_score", markers_data |-> PRACTICAL_MARKERS,
        bonus |-> "bonus_action_verbs",
        key |-> <<"a", "c", "t", "i", "o", "n", "_", "v", "e", "r", "b", "s">>]) @@
    ("integrative" :> [field |-> "integration_score", markers_data |-> INTEGRATIVE_MARKERS,
        bonus |-> "bonus_keywords",
        key |-> <<"b", "o", "n", "u", "s", "_", "k", "e", "y", "w", "o", "r", "d", "s">>]) @@
    ("evolutionary" :> [field |-> "evolution_score", markers_data |-> EVOLUTIONARY_MARKERS,
        bonus |-> "bonus_keywords",
        key |-> <<"b", "o", "n", "u", "s", "_", "k", "e", "y", "w", "o", "r", "d", "s">>]) @@
    ("convergent" :> [field |-> "convergence_score", markers_data |-> CONVERGENT_MARKERS,
        bonus |-> "bonus_logical_connectors_conclusion",
        key |-> <<"l", "o", "g", "i", "c", "a", "l", "_", "c", "o", "n", "n", "e", "c", "t", "o", "r", "s", "_", "l", "e", "a", "d", "i", "n", "g", "_", "t", "o", "_", "c", "o", "n", "c", "l", "u", "s", "i", "o", "n">>]) @@
    ("divergent" :> [field |-> "divergence_score", markers_data |-> DIVERGENT_MARKERS,
        bonus |-> "bonus_question_phrases",
        key |-> <<"q", "u", "e", "s", "t", "i", "o", "n", "_", "p", "h", "r", "a", "s", "e", "s">>]) @@
    ("reflective" :> [field |-> "reflection_score", markers_data |-> REFLECTIVE_MARKERS,
        bonus |-> "bonus_keywords",
        key |-> <<"b", "o", "n", "u", "s", "_", "k", "e", "y", "w", "o", "r", "d", "s">>])

\* ThinkingStrategy
ThinkingStrategies ==
    {"linear", "tree", "dialectical", "systematic", "creative", "analytical",
     "metacognitive"} \cup DOMAIN StrategyAnalysis

\* ConfidenceLevel: a member is the tuple of its value
ConfidenceLevel ==
    [VERY_LOW |-> <<1>>, LOW |-> <<2>>, MEDIUM |-> <<3>>, HIGH |-> <<4>>,
     VERY_HIGH |-> <<5>>]

\* ThoughtMetrics()
ThoughtMetrics ==
    [clarity_score |-> Zero, logical_coherence |-> Zero, evidence_strength |-> Zero,
     novelty_score |-> Zero, complexity_score |-> Zero,
     confidence_level |-> ConfidenceLevel.MEDIUM,
     critical_thinking_score |-> Zero, systemic_thinking_score |-> Zero,
     lateral_thinking_score |-> Zero, strategic_score |-> Zero,
     empathy_score |-> Zero, abstraction_score |-> Zero,
     practicality_score |-> Zero, integration_score |-> Zero,
     evolution_score |-> Zero, convergence_score |-> Zero,
     divergence_score |-> Zero, reflection_score |-> Zero]

\* what the analysis libraries make of a call: absent (HAS_ANALYSIS_LIBS is
\* False), or textstat raises, or flesch_reading_ease returns flesch
NoLibs == [libs |-> FALSE, raised |-> FALSE, flesch |-> 0]

FleschScores == {0 - 20, 55, 121}

Readings ==
    {NoLibs, [libs |-> TRUE, raised |-> TRUE, flesch |-> 0]} \cup
    {[libs |-> TRUE, raised |-> FALSE, flesch |-> f] : f \in FleschScores}

\* what analyze_thought_quality counts in a text
CountsOf(thought, strategy) ==
    LET thought_lower == Lower(thought) IN
    [word_count |-> Cardinality(WordStarts(thought)),
     sentence_count |-> SentenceCount(thought),
     connector_count |-> CountIn(LOGICAL_CONNECTORS, thought_lower),
     evidence_count |->
        Cardinality({i \in 1..Len(EVIDENCE_PATTERNS) :
                        Search(EVIDENCE_PATTERNS[i], thought_lower)}),
     unique_words |-> Cardinality(Words(thought_lower)),
     uncertainty_count |-> CountIn(UNCERTAINTY_MARKERS, thought_lower),
     certainty_count |-> CountIn(CERTAINTY_MARKERS, thought_lower),
     category_counts |->
        IF strategy \in DOMAIN StrategyAnalysis
        THEN CategoryCounts(thought, StrategyAnalysis[strategy].markers_data)
        ELSE <<>>,
     bonus_score |->
        IF strategy \in DOMAIN StrategyAnalysis
        THEN BonusScore(thought, StrategyAnalysis[strategy].markers_data,
                        StrategyAnalysis[strategy].bonus,
                        StrategyAnalysis[strategy].key)
        ELSE 0]

Plus(a, b) == Frac(a.num * b.den + b.num * a.den, a.den * b.den)

RECURSIVE Sum(_)
Sum(scores) == IF scores = <<>> THEN Zero ELSE Plus(Head(scores), Sum(Tail(scores)))

\* _analyze_specific_strategy on the counts; count / (word_count * 0.1) is
\* count * 10 / word_count
StrategyScore(category_counts, word_count, bonus_score) ==
    IF word_count = 0 THEN Zero
    ELSE LET scores ==
                 [i \in 1..Len(category_counts) |->
                     FMin(One, Frac(category_counts[i] * 10, word_count))]
                 \o (IF bonus_score > 0 THEN <<Hundredths(bonus_score)>> ELSE <<>>)
         IN IF scores # <<>> THEN Over(Sum(scores), Len(scores)) ELSE Zero

\* the readability score is scaled but not clipped
ClarityAndComplexityUnclipped(word_count, sentence_count, reading) ==
    [clarity_score |-> Frac(reading.flesch, 100),
     complexity_score |-> FMin(One, Frac(word_count, 50))]

\* analyze_thought_quality, lines 322-337
ClarityAndComplexity(word_count, sentence_count, reading) ==
    IF reading.libs
    THEN IF ~reading.raised
         THEN [clarity_score |-> FMin(One, FMax(Zero, Frac(reading.flesch, 100))),
               complexity_score |->
                  LET avg_sentence_length ==
                          Frac(word_count,
                               IF sentence_count > 1 THEN sentence_count ELSE 1)
                  IN FMin(One, Over(avg_sentence_length, 20))]
         ELSE [clarity_score |->
                  FMin(One, FMax(Frac(1, 10),
                                 Minus(One, Frac(word_count - 10, 100)))),
               complexity_score |-> FMin(One, Frac(word_count, 50))]
    ELSE [clarity_score |->
             FMin(One, FMax(Frac(1, 10),
                            Minus(One, Frac(Abs(word_count - 15), 30)))),
          complexity_score |-> FMin(One, Frac(word_count, 50))]

\* analyze_thought_quality, lines 366-373
ConfidenceOf(certainty_count, uncertainty_count) ==
    IF certainty_count > uncertainty_count THEN ConfidenceLevel.HIGH
    ELSE IF uncertainty_count > certainty_count THEN ConfidenceLevel.LOW
    ELSE ConfidenceLevel.MEDIUM

\* the strategy score is filed under the critical score whatever the strategy
MetricsOfUndispatched(counts, strategy, reading) ==
    [ThoughtMetrics EXCEPT
        !.critical_thinking_score =
            StrategyScore(counts.category_counts, counts.word_count,
                          counts.bonus_score)]

\* analyze_thought_quality, lines 322-374, on the counts of a text that is
\* not blank
MetricsOf(counts, strategy, reading) ==
    LET readable == ClarityAndComplexity(counts.word_count, counts.sentence_count,
                                         reading)
        general ==
            [ThoughtMetrics EXCEPT
                !.clarity_score = readable.clarity_score,
                !.complexity_score = readable.complexity_score,
                !.logical_coherence = FMin(One, Frac(counts.connector_count, 3)),
                !.evidence_strength = FMin(One, Frac(counts.evidence_count, 3)),
                !.novelty_score =
                    IF counts.word_count > 0
                    THEN FMin(One, Frac(counts.unique_words, counts.word_count))
                    ELSE Zero,
                !.confidence_level =
                    ConfidenceOf(counts.certainty_count, counts.uncertainty_count)]
    IN IF strategy \in DOMAIN StrategyAnalysis
       THEN [general EXCEPT
                ![StrategyAnalysis[strategy].field] =
                    StrategyScore(counts.category_counts, counts.word_count,
                                  counts.bonus_score)]
       ELSE general

analyze_thought_quality(thought, strategy, reading) ==
    IF Strip(thought) = <<>> THEN ThoughtMetrics
    ELSE MetricsOf(CountsOf(thought, strategy), strategy, reading)

\* one marker is enough
detect_cognitive_biases_one_marker(thought) ==
    LET thought_lower == Lower(thought)
        detected ==
            SelectSeq(COGNITIVE_BIAS_MARKERS,
                LAMBDA bias :
                    /\ CountIn(bias.markers, thought_lower) >= 1
                    /\ AnyIn(bias.context, thought_lower))
    IN [i \in 1..Len(detected) |-> detected[i].name]

detect_cognitive_biases(thought) ==
    LET thought_lower == Lower(thought)
        detected ==
            SelectSeq(COGNITIVE_BIAS_MARKERS,
                LAMBDA bias :
                    /\ CountIn(bias.markers, thought_lower) >= 2
                    /\ AnyIn(bias.context, thought_lower))
    IN [i \in 1..Len(detected) |-> detected[i].name]

\* --------------------------------------------------------------- processor
\* the counter is read where it should be advanced
IncrementCounterStuck(c) == IF c = 0 THEN 1 ELSE c

IncrementCounter(c) == c + 1

generate_thought_id(counter, hms) == <<"thought", counter, hms>>

\* the reciprocal update is left out
update_thought_relationships_unlinked(ths, thought) == ths

update_thought_relationships(ths, thought) ==
    IF thought.parent_id # None /\ thought.parent_id \in DOMAIN ths
    THEN IF ~Contains(ths[thought.parent_id].children_ids, thought.id)
         THEN [ths EXCEPT ![thought.parent_id].children_ids = Append(@, thought.id)]
         ELSE ths
    ELSE ths

\* the store is rebuilt around the new thought
StoreThoughtAlone(ths, thought) == (thought.id :> thought)

StoreThought(ths, thought) == (thought.id :> thought) @@ ths

\* the id is put at the front of the session list
AppendToSessionFront(sessions, sid, tid) ==
    [Touch(sessions, sid) EXCEPT ![sid] = <<tid>> \o @]

\* the session is opened but the id is not listed
AppendToSessionSkipped(sessions, sid, tid) == Touch(sessions, sid)

AppendToSession(sessions, sid, tid) ==
    [Touch(sessions, sid) EXCEPT ![sid] = Append(@, tid)]

\* EnhancedThought(...), lines 469-481; timestamp is left out
ThoughtFields(thought_id, input, parent_id) ==
    [id |-> thought_id,
     content |-> input.thought,
     thought_type |-> input.thought_type,
     strategy |-> input.strategy,
     parent_id |-> parent_id,
     children_ids |-> <<>>,
     branch_id |-> input.branch_id,
     revision_of |-> input.revision_of_id,
     metrics |-> ThoughtMetrics,
     cognitive_biases |-> <<>>,
     tags |-> input.tags,
     supports |-> input.supports_thoughts,
     contradicts |-> input.contradicts_thoughts,
     builds_on |-> input.builds_on_thoughts]

\* a parent id the store does not hold is dropped
NewThoughtResolved(thought_id, input) ==
    ThoughtFields(thought_id, input,
                  IF input.parent_thought_id \in DOMAIN thoughts
                  THEN input.parent_thought_id ELSE None)

NewThought(thought_id, input) ==
    ThoughtFields(thought_id, input, input.parent_thought_id)

\* create_thought, lines 483-489
AnalysedThought(thought, input, reading) ==
    IF input.request_analysis
    THEN LET metrics == analyze_thought_quality(input.thought, input.strategy, reading)
         IN [thought EXCEPT !.metrics =
                IF input.confidence # None
                THEN [metrics EXCEPT !.confidence_level = input.confidence]
                ELSE metrics]
    ELSE thought

\* create_thought, lines 491-492
ValidatedThought(thought, input) ==
    IF input.request_validation
    THEN [thought EXCEPT !.cognitive_biases = detect_cognitive_biases(input.thought)]
    ELSE thought

\* the text is tested without trimming
BlankContentUntrimmed(text) == text = <<>>

BlankContent(text) == text = <<>> \/ Len(Strip(text)) = 0

\* get_thinking_path, lines 508-511: the unknown id, or the start of the walk
PathStart(ths, thought_id) ==
    IF thought_id \notin DOMAIN ths THEN None ELSE thought_id

\* the walk stops at the requested thought
PathNextStops(ths, cur) == None

\* get_thinking_path, lines 514-517: the thought the loop looks at next, or
\* None when the loop ends (break, or a parent id the store does not hold)
PathNext(ths, cur) ==
    IF ths[cur].parent_id # None THEN Get(ths, ths[cur].parent_id) ELSE None

SessionOf(session_id) ==
    IF session_id = None THEN current_session_id ELSE session_id

\* the (i, j, k) of the three nested loops in loop order: thought i, a later
\* thought j, contradiction pair k
LoopOrder(n) ==
    LET pairs == Len(CONTRADICTION_WORDS)
        all == [x \in 1..(n * n * pairs) |->
                    <<(x - 1) \div (n * pairs), ((x - 1) \div pairs) % n,
                      ((x - 1) % pairs) + 1>>]
    IN SelectSeq(all, LAMBDA e : e[1] < e[2])

check_logical_consistency(contents, similarity) ==
    IF ~similarity.computed \/ Len(contents) < 2
    THEN [consistent |-> TRUE, conflicts |-> <<>>]
    ELSE LET found ==
                 SelectSeq(LoopOrder(Len(contents)),
                    LAMBDA e :
                        /\ In(CONTRADICTION_WORDS[e[3]][1], Lower(contents[e[1] + 1]))
                        /\ In(CONTRADICTION_WORDS[e[3]][2], Lower(contents[e[2] + 1]))
                        /\ <<e[1], e[2]>> \in similarity.low)
             conflicts == [x \in 1..Len(found) |->
                              [thoughts |-> <<found[x][1], found[x][2]>>,
                               type |-> "semantic_contradiction"]]
         IN [consistent |-> Len(conflicts) = 0, conflicts |-> conflicts]

\* the conflicts are set against the pairs of thoughts
CoherenceScorePerPair(conflicts, thought_count) ==
    Minus(One, Frac(conflicts,
                    IF thought_count > 2
                    THEN (thought_count * (thought_count - 1)) \div 2 ELSE 1))

\* analyze_session_coherence, line 546
CoherenceScore(conflicts, thought_count) ==
    Minus(One, Frac(conflicts, IF thought_count > 1 THEN thought_count ELSE 1))

\* the known session without thoughts is reported as missing
analyze_session_coherence_strict(session_id, similarity) ==
    LET sid == SessionOf(session_id) IN
    IF sid \notin DOMAIN thought_sessions \/ SessionThoughts(sid) = <<>>
    THEN [error |-> "ERROR_SESSION_NOT_FOUND"]
    ELSE [coherence_score |-> One]

analyze_session_coherence(session_id, similarity) ==
    LET sid == SessionOf(session_id) IN
    IF sid \notin DOMAIN thought_sessions
    THEN [error |-> "ERROR_SESSION_NOT_FOUND"]
    ELSE LET thought_ids == SessionThoughts(sid)
             thoughts_content ==
                 [i \in 1..Len(thought_ids) |-> thoughts[thought_ids[i]].content]
         IN IF thoughts_content = <<>>
            THEN [coherence_score |-> Zero, analysis |-> "ANALYSIS_NO_THOUGHTS"]
            ELSE LET consistency_analysis ==
                         check_logical_consistency(thoughts_content, similarity)
                 IN [coherence_score |->
                        CoherenceScore(Len(consistency_analysis.conflicts),
                                       Len(thoughts_content)),
                     consistency_analysis |-> consistency_analysis,
                     thought_count |-> Len(thoughts_content)]

\* perform_metacognitive_analysis, line 634: the session map after the
\* defaultdict lookup of the current session
MetacognitiveSessions(sessions) == Touch(sessions, current_session_id)

perform_metacognitive_analysis(focus_area) ==
    LET session_thoughts ==
            IF current_session_id \in DOMAIN thought_sessions
            THEN SessionThoughts(current_session_id)
            ELSE <<>>
    IN IF session_thoughts = <<>>
       THEN [analysis |-> "ANALYSIS_NO_THOUGHTS", recommendations |-> <<>>]
       ELSE [focus_area |-> focus_area,
             thinking_patterns |-> [thoughts |-> Len(session_thoughts)]]

ExportResult(session_id, format_type) ==
    LET sid == SessionOf(session_id) IN
    IF sid \notin DOMAIN thought_sessions
    THEN [error |-> "ERROR_SESSION_NOT_FOUND"]
    ELSE LET ths == SessionThoughts(sid) IN
         CASE format_type = "json" ->
                [session_id |-> sid, thought_count |-> Len(ths), thoughts |-> ths]
           [] format_type = "markdown" ->
                [content |-> ths, format |-> format_type]
           [] format_type = "summary" ->
                [session_summary |-> [session_id |-> sid, total_thoughts |-> Len(ths)]]
           [] OTHER ->
                [error |-> <<"EXPORT_UNSUPPORTED_FORMAT", format_type>>]

HistoryCap == 20

\* the newest entry is the one dropped
RecordStrategyDropsNewest(history, strategy, effectiveness) ==
    LET appended == Append(history, <<strategy, effectiveness>>) IN
    IF Len(appended) > HistoryCap THEN SubSeq(appended, 1, HistoryCap) ELSE appended

\* suggest_next_thinking_strategy, lines 558-560
RecordStrategy(history, strategy, effectiveness) ==
    LET appended == Append(history, <<strategy, effectiveness>>) IN
    IF Len(appended) > HistoryCap THEN Tail(appended) ELSE appended

analyze_complexity(text) ==
    IF Strip(text) = <<>> THEN Zero
    ELSE LET word_count == Cardinality(WordStarts(text))
             long_word_count == Cardinality(LongerWordStarts(text, 7))
             sentence_count == SplitPieces(text)
         IN IF sentence_count = 0 THEN Zero
            ELSE LET complexity ==
                         IF word_count > 0
                         THEN Times(Frac(long_word_count, word_count),
                                    Frac(word_count, sentence_count))
                         ELSE Zero
                 IN FMin(One, Over(complexity, 5))

\* count / (word_count * 0.1) is count * 10 / word_count
analyze_ambiguity(text) ==
    LET count == CountIn(AMBIGUITY_MARKERS, Lower(text))
        word_count == Cardinality(WordStarts(text))
    IN FMin(One, IF word_count > 0 THEN Frac(count * 10, word_count) ELSE Zero)

analyze_emotional_tone(text) ==
    LET text_lower == Lower(text)
        positive_score == CountIn(EMOTIONAL_WORDS.positive, text_lower)
        negative_score == CountIn(EMOTIONAL_WORDS.negative, text_lower)
        total_score == positive_score + negative_score
    IN IF total_score = 0 THEN Zero
       ELSE Frac(Abs(positive_score - negative_score), total_score)

\* the first domain with a keyword in the text, or the general domain
detect_domain(text) ==
    LET hits == {i \in 1..Len(DOMAIN_KEYWORDS) :
                    \E k \in 1..Len(DOMAIN_KEYWORDS[i][2]) :
                        In(DOMAIN_KEYWORDS[i][2][k], Lower(text))}
    IN IF hits = {} THEN "general"
       ELSE DOMAIN_KEYWORDS[CHOOSE i \in hits : \A j \in hits : i <= j][1]

\* suggest_next_thinking_strategy, lines 562-567, for the explored contexts
context_analysis ==
    [context \in ContextInputs |->
        [complexity |-> analyze_complexity(context),
         ambiguity |-> analyze_ambiguity(context),
         emotional_tone |-> analyze_emotional_tone(context),
         domain |-> detect_domain(context)]]

\* the whole history is analysed
analyze_strategy_history_whole(history) == history

\* self.strategy_history[-5:]
analyze_strategy_history(history) ==
    SubSeq(history, IF Len(history) > 5 THEN Len(history) - 4 ELSE 1, Len(history))

\* lines 572-574: the recommendations of the three context branches
ContextRecommendations(analysis) ==
    (IF Less(Frac(7, 10), analysis.complexity)
     THEN <<<<"systemic", "HIGH_COMPLEXITY_REASON">>,
            <<"analytical", "DETAILED_ANALYSIS_NEEDED_REASON">>>>
     ELSE <<>>)
    \o (IF Less(Frac(6, 10), analysis.ambiguity)
        THEN <<<<"critical", "AMBIGUITY_CRITICAL_ANALYSIS_REASON">>,
               <<"dialectical", "OPPOSING_VIEWPOINTS_REASON">>>>
        ELSE <<>>)
    \o (IF Less(Frac(5, 10), analysis.emotional_tone)
        THEN <<<<"empathetic", "EMOTIONAL_CONTEXT_EMPATHETIC_REASON">>,
               <<"reflective", "REFLECTION_NEEDED_REASON">>>>
        ELSE <<>>)

\* lines 576-578: up to two strategies of the analysed history that scored
\* above 0.7
HistoryRecommendations(history) ==
    LET analyzed_strategy_history == analyze_strategy_history(history)
        successful_strategies ==
            SelectSeq(analyzed_strategy_history, LAMBDA entry : entry[2] > 70)
        first_two == SubSeq(successful_strategies, 1,
                            IF Len(successful_strategies) > 2
                            THEN 2 ELSE Len(successful_strategies))
    IN [i \in 1..Len(first_two) |->
            <<first_two[i][1], "STRATEGY_EFFECTIVE_PREVIOUSLY_REASON">>]

\* the middle range ends below 0.7 but the last range starts above it
FallbackRecommendationsGap(current_effectiveness) ==
    IF current_effectiveness < 50
    THEN <<<<"tree", "EXPLORE_ALTERNATIVES_REASON">>,
           <<"dialectical", "OPPOSING_VIEWPOINTS_REASON">>,
           <<"metacognitive", "ANALYZE_APPROACH_REASON">>>>
    ELSE IF current_effectiveness < 70
    THEN <<<<"systematic", "USE_SYSTEMATIC_ANALYSIS_REASON">>,
           <<"analytical", "APPLY_STRICT_LOGIC_REASON">>>>
    ELSE IF current_effectiveness > 70
    THEN <<<<"creative", "TRY_CREATIVE_APPROACH_REASON">>,
           <<"divergent", "GENERATE_MORE_ALTERNATIVES_REASON">>>>
    ELSE <<>>

\* lines 581-583
FallbackRecommendations(current_effectiveness) ==
    IF current_effectiveness < 50
    THEN <<<<"tree", "EXPLORE_ALTERNATIVES_REASON">>,
           <<"dialectical", "OPPOSING_VIEWPOINTS_REASON">>,
           <<"metacognitive", "ANALYZE_APPROACH_REASON">>>>
    ELSE IF current_effectiveness < 70
    THEN <<<<"systematic", "USE_SYSTEMATIC_ANALYSIS_REASON">>,
           <<"analytical", "APPLY_STRICT_LOGIC_REASON">>>>
    ELSE <<<<"creative", "TRY_CREATIVE_APPROACH_REASON">>,
           <<"divergent", "GENERATE_MORE_ALTERNATIVES_REASON">>>>

\* the fallback is added to whatever the branches produced
RecommendationsWithFallback(analysis, history, current_effectiveness) ==
    ContextRecommendations(analysis) \o HistoryRecommendations(history)
        \o FallbackRecommendations(current_effectiveness)

\* lines 570-583; history is the history after the call's own entry
Recommendations(analysis, history, current_effectiveness) ==
    LET recommendations ==
            ContextRecommendations(analysis) \o HistoryRecommendations(history)
    IN IF recommendations = <<>>
       THEN FallbackRecommendations(current_effectiveness)
       ELSE recommendations

\* the history is read before the call's own entry is recorded
suggest_next_thinking_strategy_before(history, context, current_effectiveness) ==
    [context_analysis |-> context_analysis[context],
     current_effectiveness |-> current_effectiveness,
     suggested_strategies |->
        Recommendations(context_analysis[context],
                        SubSeq(history, 1, Len(history) - 1),
                        current_effectiveness),
     reasoning |-> "RECOMMENDATION_REASONING_SUFFIX"]

suggest_next_thinking_strategy(history, context, current_effectiveness) ==
    [context_analysis |-> context_analysis[context],
     current_effectiveness |-> current_effectiveness,
     suggested_strategies |->
        Recommendations(context_analysis[context], history, current_effectiveness),
     reasoning |-> "RECOMMENDATION_REASONING_SUFFIX"]

\* ------------------------------------------------------- analysis inputs
\* creations explored by SpecAnalysis
MaxAnalysed == 1

\* texts with more certainty markers, with more uncertainty markers, and
\* with neither
CertainText == <<"I", "t", " ", "i", "s", " ", "d", "e", "f", "i", "n", "i", "t", "e", "l", "y", " ", "a", "n", "d", " ", "o", "b", "v", "i", "o", "u", "s", "l", "y", " ", "s", "o">>

UncertainText == <<"p", "o", "s", "s", "i", "b", "l", "y">>

NeutralText == <<"p", "l", "a", "n">>

AnalysisTexts == {CertainText, UncertainText, NeutralText}

\* confidence values a caller sends: absent, or a level
ConfidenceInputs == {None, ConfidenceLevel.VERY_LOW, ConfidenceLevel.HIGH}

\* create requests that differ in text, strategy, explicit confidence and
\* the two request flags
AnalysisInputs ==
    {[ThinkingInput(text, None) EXCEPT
         !.strategy = strategy, !.confidence = confidence,
         !.request_analysis = request_analysis,
         !.request_validation = request_validation] :
        text \in AnalysisTexts, strategy \in {"linear", "critical"},
        confidence \in ConfidenceInputs,
        request_analysis \in BOOLEAN, request_validation \in BOOLEAN}

\* the counts of texts that are not blank, for the analysis of counts: a
\* marker can occur inside a word, so a count is bounded by its catalog only
GeneralCounts ==
    {[word_count |-> word_count, sentence_count |-> sentence_count,
      connector_count |-> connector_count, evidence_count |-> evidence_count,
      unique_words |-> unique_words,
      uncertainty_count |-> markers[1], certainty_count |-> markers[2]] :
        word_count \in {1, 15, 60, 200}, sentence_count \in {0, 3},
        connector_count \in {0, Len(LOGICAL_CONNECTORS)},
        evidence_count \in {1, Len(EVIDENCE_PATTERNS)},
        unique_words \in {1, 15},
        markers \in {<<0, 0>>, <<Len(UNCERTAINTY_MARKERS), 0>>,
                     <<0, Len(CERTAINTY_MARKERS)>>}}

\* the bonus a strategy's keywords earn, in hundredths
BonusEarned(strategy) ==
    LET a == StrategyAnalysis[strategy] IN
    CASE a.bonus = "bonus_structure_keywords" -> 20
      [] a.bonus = "bonus_question_phrases" -> 15
      [] a.bonus = "bonus_keywords" ->
           IF Contains(MarkersOf(a.markers_data, a.key), <<"w", "i", "n", "-", "w", "i", "n">>)
              \/ Contains(MarkersOf(a.markers_data, a.key), <<"s", "y", "n", "e", "r", "g", "y">>)
           THEN 15 ELSE 10
      [] OTHER -> 10

\* the strategy part of the counts: no marker, one marker of the first
\* category, or every marker of every category, with and without the bonus
StrategyCounts(strategy) ==
    IF strategy \notin DOMAIN StrategyAnalysis
    THEN {[category_counts |-> <<>>, bonus_score |-> 0]}
    ELSE LET regular == SelectSeq(StrategyAnalysis[strategy].markers_data,
                                  LAMBDA e : ~Skipped(e[1]))
         IN {[category_counts |-> counts, bonus_score |-> bonus] :
                counts \in {[i \in 1..Len(regular) |-> 0],
                            [i \in 1..Len(regular) |-> IF i = 1 THEN 1 ELSE 0],
                            [i \in 1..Len(regular) |-> Len(regular[i][2])]},
                bonus \in {0, BonusEarned(strategy)}}

\* ------------------------------------------------------------ tool handlers
\* enhanced_thinking tool: validation, then create_thought
enhanced_thinking(input, hms, reading) ==
    /\ pc = "idle"
    /\ request' = [tool |-> "enhanced_thinking", input |-> input]
    /\ IF BlankContent(input.thought)
       THEN /\ response' = [input |-> [error |-> "ERROR_EMPTY_THOUGHT_CONTENT",
                                       status |-> "failed"]]
            /\ UNCHANGED <<engine, walk>>
       ELSE /\ global_thought_counter < MaxThoughts
            /\ LET counter == IncrementCounter(global_thought_counter)
                   thought_id == generate_thought_id(counter, hms)
                   thought ==
                       ValidatedThought(
                           AnalysedThought(NewThought(thought_id, input), input,
                                           reading),
                           input)
                   linked == update_thought_relationships(thoughts, thought)
               IN /\ global_thought_counter' = counter
                  /\ thoughts' = StoreThought(linked, thought)
                  /\ thought_sessions' =
                        AppendToSession(thought_sessions, current_session_id, thought_id)
                  /\ response' =
                        [thought_id |-> thought_id,
                         analysis |->
                            [quality_metrics |-> thought.metrics,
                             cognitive_biases |-> thought.cognitive_biases],
                         children |-> thought.children_ids]
            /\ UNCHANGED <<strategy_history, walk>>
    /\ UNCHANGED server

\* the unknown id is reported through the handler's exception path
PathResultRaises(thought_id, p) ==
    IF p = <<>>
    THEN [input |-> [error |-> <<"THOUGHT_NOT_FOUND", thought_id>>, status |-> "failed"]]
    ELSE [thought_id |-> thought_id, path_length |-> Len(p), path |-> p]

PathResult(thought_id, p) ==
    IF p = <<>>
    THEN [error |-> <<"THOUGHT_NOT_FOUND", thought_id>>, path |-> <<>>]
    ELSE [thought_id |-> thought_id, path_length |-> Len(p), path |-> p]

\* get_thinking_path tool, up to the first test of the while loop
get_thinking_path(thought_id) ==
    /\ pc = "idle"
    /\ request' = [tool |-> "get_thinking_path", thought_id |-> thought_id]
    /\ LET start == PathStart(thoughts, thought_id) IN
       IF start = None
       THEN /\ response' = PathResult(thought_id, <<>>)
            /\ UNCHANGED walk
       ELSE /\ pc' = "walk"
            /\ path' = <<>>
            /\ current_thought' = start
            /\ response' = NoResponse
    /\ UNCHANGED engine
    /\ UNCHANGED server

\* one iteration of the while loop; the iteration that ends the loop also
\* returns the path and builds the tool's result
get_thinking_path_loop ==
    /\ pc = "walk"
    /\ current_thought # None
    /\ Len(path) < MaxWalk
    /\ LET inserted == <<current_thought>> \o path
           next == PathNext(thoughts, current_thought)
       IN IF next # None
          THEN /\ path' = inserted
               /\ current_thought' = next
               /\ UNCHANGED <<pc, response>>
          ELSE /\ response' = PathResult(request.thought_id, inserted)
               /\ pc' = "idle"
               /\ path' = <<>>
               /\ current_thought' = None
    /\ UNCHANGED <<engine, request>>
    /\ UNCHANGED server

analyze_thinking_session(session_id, similarity) ==
    /\ pc = "idle"
    /\ request' = [tool |-> "analyze_thinking_session", session_id |-> session_id]
    /\ response' = analyze_session_coherence(session_id, similarity)
    /\ UNCHANGED <<engine, walk>>
    /\ UNCHANGED server

metacognitive_reflection(focus_area) ==
    /\ pc = "idle"
    /\ request' = [tool |-> "metacognitive_reflection", focus_area |-> focus_area]
    /\ thought_sessions' = MetacognitiveSessions(thought_sessions)
    /\ response' = perform_metacognitive_analysis(focus_area)
    /\ UNCHANGED <<thoughts, strategy_history, global_thought_counter, walk>>
    /\ UNCHANGED server

export_thinking_session(session_id, format_type) ==
    /\ pc = "idle"
    /\ request' = [tool |-> "export_thinking_session", session_id |-> session_id,
                   format_type |-> format_type]
    /\ response' = ExportResult(session_id, format_type)
    /\ UNCHANGED <<engine, walk>>
    /\ UNCHANGED server

\* adapt_thinking_strategy tool: suggest_next_thinking_strategy
adapt_thinking_strategy(strategy, effectiveness, context) ==
    /\ pc = "idle"
    /\ request' = [tool |-> "adapt_thinking_strategy", current_strategy |-> strategy,
                   effectiveness_score |-> effectiveness, context |-> context]
    /\ strategy_history' = RecordStrategy(strategy_history, strategy, effectiveness)
    /\ response' = suggest_next_thinking_strategy(strategy_history', context,
                                                  effectiveness)
    /\ UNCHANGED <<thoughts, thought_sessions, global_thought_counter, walk>>
    /\ UNCHANGED server

Init ==
    /\ thoughts = <<>>
    /\ thought_sessions = <<>>
    /\ strategy_history = <<>>
    /\ global_thought_counter = 0
    /\ pc = "idle"
    /\ path = <<>>
    /\ current_thought = None
    /\ request = NoRequest
    /\ response = NoResponse
    /\ ServerStarted

Next ==
    \/ \E text \in Contents, parent \in ParentInputs, hms \in Clock :
          enhanced_thinking(ThinkingInput(text, parent), hms, NoLibs)
    \/ \E thought_id \in ThoughtIdInputs : get_thinking_path(thought_id)
    \/ get_thinking_path_loop
    \/ \E session_id \in SessionInputs :
          analyze_thinking_session(session_id, NoSimilarity)
    \/ metacognitive_reflection("focus")
    \/ \E session_id \in SessionInputs, format_type \in FormatInputs :
          export_thinking_session(session_id, format_type)
    \/ /\ Len(strategy_history) < MaxSuggest
       /\ \E strategy \in StrategyInputs, effectiveness \in EffectivenessInputs :
             adapt_thinking_strategy(strategy, effectiveness, PlainContext)

Spec == Init /\ [][Next]_vars

\* the strategy adviser alone, over histories of up to MaxHistory entries
NextStrategy ==
    /\ Len(strategy_history) < MaxHistory
    /\ \E call \in StrategyCalls, context \in ContextInputs :
          adapt_thinking_strategy(call[1], call[2], context)

SpecStrategy == Init /\ [][NextStrategy]_vars

\* the number of marked entries a history holds
MarkedCount(history) ==
    Cardinality({i \in 1..Len(history) : history[i] \in MarkedCalls})

\* the strategy history alone, filled past its cap
NextHistory ==
    \E call \in {FillerCall} \cup MarkedCalls :
        /\ call \in MarkedCalls => MarkedCount(strategy_history) < MaxMarked
        /\ adapt_thinking_strategy(call[1], call[2], PlainContext)

SpecHistory == Init /\ [][NextHistory]_vars

\* creations of contradicting thoughts and the session analysis, under every
\* outcome of the similarity computation
NextCoherence ==
    \/ \E text \in CoherenceContents, hms \in Clock :
          enhanced_thinking(ThinkingInput(text, None), hms, NoLibs)
    \/ \E session_id \in SessionInputs :
          \E similarity \in SimilarityOutcomes(global_thought_counter) :
              analyze_thinking_session(session_id, similarity)

SpecCoherence == Init /\ [][NextCoherence]_vars

\* creations that differ in what they ask of the analysis, under every
\* outcome of the readability computation
NextAnalysis ==
    /\ global_thought_counter < MaxAnalysed
    /\ \E input \in AnalysisInputs, hms \in Clock, reading \in Readings :
          enhanced_thinking(input, hms, reading)

SpecAnalysis == Init /\ [][NextAnalysis]_vars

\* analyze_thought_quality applied to the counts of a text
InitMetrics ==
    /\ thoughts = <<>>
    /\ thought_sessions = <<>>
    /\ strategy_history = <<>>
    /\ global_thought_counter = 0
    /\ pc = "idle"
    /\ path = <<>>
    /\ current_thought = None
    /\ \E general \in GeneralCounts, strategy \in ThinkingStrategies,
          reading \in Readings :
          \E specific \in StrategyCounts(strategy) :
              /\ general.unique_words <= general.word_count
              /\ request = [tool |-> "analyze_thought_quality",
                            counts |-> general @@ specific,
                            strategy |-> strategy, reading |-> reading]
    /\ response = NoResponse
    /\ ServerStarted

NextMetrics ==
    /\ response = NoResponse
    /\ response' = MetricsOf(request.counts, request.strategy, request.reading)
    /\ UNCHANGED <<engine, walk, request>>
    /\ UNCHANGED server

SpecMetrics == InitMetrics /\ [][NextMetrics]_vars

\* ------------------------------------------------------ bias detection
\* phrases a text is made of: markers of two biases (one capitalised), a
\* marker the two share with a third, context cues of two biases, and a
\* word no catalog holds
BiasPhrases ==
    <<<<"A", "l", "w", "a", "y", "s">>,
      <<"n", "e", "v", "e", "r">>,
      <<"a", "l", "l">>,
      <<"o", "r">>,
      <<"a", "s", "s", "e", "r", "t", "i", "o", "n">>,
      <<"f", "e", "w", " ", "e", "x", "a", "m", "p", "l", "e", "s">>,
      <<"p", "l", "a", "n">>>>

\* phrases in a text
MaxPhrases == 4

RECURSIVE JoinPhrases(_)
JoinPhrases(phrases) ==
    IF phrases = <<>> THEN <<>>
    ELSE IF Len(phrases) = 1 THEN BiasPhrases[Head(phrases)]
    ELSE BiasPhrases[Head(phrases)] \o <<" ">> \o JoinPhrases(Tail(phrases))

\* detect_cognitive_biases applied to a text
InitBiases ==
    /\ thoughts = <<>>
    /\ thought_sessions = <<>>
    /\ strategy_history = <<>>
    /\ global_thought_counter = 0
    /\ pc = "idle"
    /\ path = <<>>
    /\ current_thought = None
    /\ \E n \in 0..MaxPhrases :
          \E phrases \in [1..n -> 1..Len(BiasPhrases)] :
              request = [tool |-> "detect_cognitive_biases",
                         thought |-> JoinPhrases(phrases)]
    /\ response = NoResponse
    /\ ServerStarted

NextBiases ==
    /\ response = NoResponse
    /\ response' = [detected_biases |-> detect_cognitive_biases(request.thought)]
    /\ UNCHANGED <<engine, walk, request>>
    /\ UNCHANGED server

SpecBiases == InitBiases /\ [][NextBiases]_vars

\* ------------------------------------------------------------ the example
\* the example of the specification's section 8
ExampleText == <<"T", "h", "e", " ", "d", "a", "t", "a", " ", "c", "l", "e", "a", "r", "l", "y", " ", "s", "h", "o", "w", "s", " ", "9", "5", "%", " ", "i", "m", "p", "r", "o", "v", "e", "m", "e", "n", "t", ",", " ", "t", "h", "e", "r", "e", "f", "o", "r", "e", " ", "w", "e", " ", "s", "h", "o", "u", "l", "d", " ", "p", "r", "o", "c", "e", "e", "d", ".">>

\* creations of the example text under every strategy, with and without an
\* explicit confidence and the analysis
ExampleInputs ==
    {[ThinkingInput(ExampleText, None) EXCEPT
         !.strategy = strategy, !.confidence = confidence,
         !.request_analysis = request_analysis] :
        strategy \in ThinkingStrategies, confidence \in ConfidenceInputs,
        request_analysis \in BOOLEAN}

\* the example is the first thought of a fresh engine
NextExample ==
    /\ thoughts = <<>>
    /\ \E input \in ExampleInputs, hms \in Clock, reading \in Readings :
          enhanced_thinking(input, hms, reading)

SpecExample == Init /\ [][NextExample]_vars

\* ------------------------------------------------ the server and its calls
\* the keys of TRANSLATIONS; a language is the tuple of its code
SupportedLanguages == {<<"en">>, <<"ru">>}

\* tool calls explored
MaxCalls == 2

\* initialize() calls explored
MaxInitialize == 2

\* the tool calls a client sends: creations that ask for no language, for a
\* supported one (naming the first thought as parent) and for an unsupported
\* one, a creation without content, and the analysis of the current session
CallInputs ==
    {[tool |-> "enhanced_thinking", input |-> ThinkingInput(NeutralText, None)],
     [tool |-> "enhanced_thinking",
      input |-> [ThinkingInput(NeutralText, <<"thought", 1, "120000">>) EXCEPT
                    !.response_language = <<"ru">>]],
     [tool |-> "enhanced_thinking",
      input |-> [ThinkingInput(NeutralText, None) EXCEPT
                    !.response_language = <<"xx">>]],
     [tool |-> "enhanced_thinking",
      input |-> [ThinkingInput(<<" ">>, None) EXCEPT
                    !.response_language = <<"ru">>]],
     [tool |-> "analyze_thinking_session", session_id |-> None]}

\* an asyncio task runs until it awaits something that is not ready: call c
\* takes a step only while the event loop runs no other call
MayRunPreemptively(c) == TRUE

MayRun(c) == running \subseteq {c}

\* ensure_initialized, line 886: the call has to wait for the init event
MustWaitNever == FALSE

MustWait == ~initialized

\* the handlers' finally: the formatter language found on entry
RestoredLanguageKept(call) == formatter_language

RestoredLanguage(call) == call.original_formatter_language

\* enhanced_thinking, line 913, and line 951 of analyze_thinking_session
ResponseLanguage(call) ==
    IF call.tool = "enhanced_thinking"
    THEN IF call.input.response_language # None
            /\ call.input.response_language \in SupportedLanguages
         THEN call.input.response_language
         ELSE language
    ELSE language

\* the payload of the handlers' except branches
ErrorResult(error) == [input |-> [error |-> error, status |-> "failed"]]

\* the first statements of a handler, up to await server.ensure_initialized()
begin_call(tool_call) ==
    /\ running = {}
    /\ Len(calls) < MaxCalls
    /\ calls' = Append(calls,
                       tool_call @@
                       [pc |-> IF MustWait THEN "waiting" ELSE "entered",
                        original_formatter_language |-> formatter_language,
                        current_response_language |-> None,
                        thought |-> None,
                        response |-> NoResponse])
    /\ running' = IF MustWait THEN {} ELSE {Len(calls) + 1}
    /\ UNCHANGED <<engine, walk, request, response, initialized, init_event,
                   language, formatter_language, init_calls, validations>>

\* ensure_initialized: self._init_event.wait() returns
wait_over(c) ==
    /\ calls[c].pc = "waiting"
    /\ MayRun(c)
    /\ init_event
    /\ calls' = [calls EXCEPT ![c].pc = "entered"]
    /\ running' = running \cup {c}
    /\ UNCHANGED <<engine, walk, request, response, initialized, init_event,
                   language, formatter_language, init_calls, validations>>

\* ensure_initialized: asyncio.TimeoutError after the 10 seconds, then the
\* handler's except and finally
wait_timeout(c) ==
    /\ calls[c].pc = "waiting"
    /\ MayRun(c)
    /\ ~init_event
    /\ calls' = [calls EXCEPT ![c].pc = "done",
                              ![c].response = ErrorResult("ERROR_INIT_TIMEOUT")]
    /\ formatter_language' = RestoredLanguage(calls[c])
    /\ UNCHANGED <<engine, walk, request, response, initialized, init_event,
                   language, init_calls, validations, running>>

\* the input check of enhanced_thinking and the handlers' set_language
set_response_language(c) ==
    /\ calls[c].pc = "entered"
    /\ MayRun(c)
    /\ IF calls[c].tool = "enhanced_thinking" /\ BlankContent(calls[c].input.thought)
       THEN /\ calls' = [calls EXCEPT
                            ![c].pc = "done",
                            ![c].response = ErrorResult("ERROR_EMPTY_THOUGHT_CONTENT")]
            /\ formatter_language' = RestoredLanguage(calls[c])
            /\ running' = running \ {c}
       ELSE /\ calls' = [calls EXCEPT
                            ![c].pc = IF calls[c].tool = "enhanced_thinking"
                                      THEN "generate_thought_id" ELSE "analyze",
                            ![c].current_response_language =
                                ResponseLanguage(calls[c])]
            /\ formatter_language' = ResponseLanguage(calls[c])
            /\ UNCHANGED running
    /\ UNCHANGED <<engine, walk, request, response, initialized, init_event,
                   language, init_calls, validations>>

\* generate_thought_id, line 462
increment_counter(c) ==
    /\ calls[c].pc = "generate_thought_id"
    /\ MayRun(c)
    /\ global_thought_counter' = IncrementCounter(global_thought_counter)
    /\ calls' = [calls EXCEPT ![c].pc = "create_thought"]
    /\ UNCHANGED <<thoughts, thought_sessions, strategy_history, walk, request,
                   response, initialized, init_event, language,
                   formatter_language, init_calls, validations, running>>

\* generate_thought_id, line 463, and create_thought, lines 469-492
build_thought(c) ==
    /\ calls[c].pc = "create_thought"
    /\ MayRun(c)
    /\ \E hms \in Clock :
          calls' = [calls EXCEPT
                       ![c].pc = "update_thought_relationships",
                       ![c].thought =
                           ValidatedThought(
                               AnalysedThought(
                                   NewThought(
                                       generate_thought_id(global_thought_counter, hms),
                                       calls[c].input),
                                   calls[c].input, NoLibs),
                               calls[c].input)]
    /\ UNCHANGED <<engine, walk, request, response, initialized, init_event,
                   language, formatter_language, init_calls, validations, running>>

\* create_thought, line 494
link_thought(c) ==
    /\ calls[c].pc = "update_thought_relationships"
    /\ MayRun(c)
    /\ thoughts' = update_thought_relationships(thoughts, calls[c].thought)
    /\ calls' = [calls EXCEPT ![c].pc = "store"]
    /\ UNCHANGED <<thought_sessions, strategy_history, global_thought_counter,
                   walk, request, response, initialized, init_event, language,
                   formatter_language, init_calls, validations, running>>

\* create_thought, line 495
store_thought(c) ==
    /\ calls[c].pc = "store"
    /\ MayRun(c)
    /\ thoughts' = StoreThought(thoughts, calls[c].thought)
    /\ calls' = [calls EXCEPT ![c].pc = "append"]
    /\ UNCHANGED <<thought_sessions, strategy_history, global_thought_counter,
                   walk, request, response, initialized, init_event, language,
                   formatter_language, init_calls, validations, running>>

\* create_thought, line 496
append_to_session(c) ==
    /\ calls[c].pc = "append"
    /\ MayRun(c)
    /\ thought_sessions' =
          AppendToSession(thought_sessions, current_session_id, calls[c].thought.id)
    /\ calls' = [calls EXCEPT ![c].pc = "return"]
    /\ UNCHANGED <<thoughts, strategy_history, global_thought_counter,
                   walk, request, response, initialized, init_event, language,
                   formatter_language, init_calls, validations, running>>

\* enhanced_thinking, lines 920-931, and its finally
return_thought(c) ==
    /\ calls[c].pc = "return"
    /\ MayRun(c)
    /\ calls' = [calls EXCEPT
                    ![c].pc = "done",
                    ![c].response =
                        [thought_id |-> calls[c].thought.id,
                         analysis |->
                            [quality_metrics |-> calls[c].thought.metrics,
                             cognitive_biases |-> calls[c].thought.cognitive_biases],
                         children |-> thoughts[calls[c].thought.id].children_ids]]
    /\ formatter_language' = RestoredLanguage(calls[c])
    /\ running' = running \ {c}
    /\ UNCHANGED <<engine, walk, request, response, initialized, init_event,
                   language, init_calls, validations>>

\* analyze_thinking_session, lines 953-956, and its finally
return_analysis(c) ==
    /\ calls[c].pc = "analyze"
    /\ MayRun(c)
    /\ calls' = [calls EXCEPT
                    ![c].pc = "done",
                    ![c].response =
                        analyze_session_coherence(calls[c].session_id, NoSimilarity)]
    /\ formatter_language' = RestoredLanguage(calls[c])
    /\ running' = running \ {c}
    /\ UNCHANGED <<engine, walk, request, response, initialized, init_event,
                   language, init_calls, validations>>

\* initialize(): the lock is free whenever it is asked for, because its
\* holder never suspends; valid is what _validate_components makes of the
\* components
initialize(valid) ==
    /\ running = {}
    /\ init_calls < MaxInitialize
    /\ init_calls' = init_calls + 1
    /\ IF ~initialized
       THEN /\ validations' = validations + 1
            /\ initialized' = valid
            /\ init_event' = (init_event \/ valid)
       ELSE UNCHANGED <<validations, initialized, init_event>>
    /\ UNCHANGED <<engine, walk, request, response, language,
                   formatter_language, running, calls>>

\* the server after construction and main's set_language
InitServer ==
    /\ thoughts = <<>>
    /\ thought_sessions = <<>>
    /\ strategy_history = <<>>
    /\ global_thought_counter = 0
    /\ pc = "idle"
    /\ path = <<>>
    /\ current_thought = None
    /\ request = NoRequest
    /\ response = NoResponse
    /\ initialized = FALSE
    /\ init_event = FALSE
    /\ language \in SupportedLanguages
    /\ formatter_language = language
    /\ init_calls = 0
    /\ validations = 0
    /\ running = {}
    /\ calls = <<>>

NextServer ==
    \/ \E valid \in BOOLEAN : initialize(valid)
    \/ \E tool_call \in CallInputs : begin_call(tool_call)
    \/ \E c \in DOMAIN calls :
          \/ wait_over(c)
          \/ wait_timeout(c)
          \/ set_response_language(c)
          \/ increment_counter(c)
          \/ build_thought(c)
          \/ link_thought(c)
          \/ store_thought(c)
          \/ append_to_session(c)
          \/ return_thought(c)
          \/ return_analysis(c)

SpecServer == InitServer /\ [][NextServer]_vars

\* ------------------------------------------------------------------ claims
IsPrefix(a, b) == Len(a) <= Len(b) /\ SubSeq(b, 1, Len(a)) = a

Count(seq, x) == Cardinality({i \in 1..Len(seq) : seq[i] = x})

SessionList(sessions, sid) == IF sid \in DOMAIN sessions THEN sessions[sid] ELSE <<>>

\* the step serves an enhanced_thinking call whose content passes validation
CreateStep ==
    /\ request'.tool = "enhanced_thinking"
    /\ Strip(request'.input.thought) # <<>>

\* the step serves an enhanced_thinking call whose content is blank
BlankCreateStep ==
    /\ request'.tool = "enhanced_thinking"
    /\ Strip(request'.input.thought) = <<>>

\* the number in the middle of an id
Serial(id) == id[2]

\* C1: no two stored thoughts share an id. Every stored thought sits under
\* its own id, the serial numbers of the stored ids are pairwise different
\* and as many as ids were generated, and the counter never goes down and
\* goes up whenever a thought is stored.
C1_UniqueIds ==
    /\ [](/\ \A k \in DOMAIN thoughts : thoughts[k].id = k
          /\ \A a, b \in DOMAIN thoughts : a # b => Serial(a) # Serial(b)
          /\ \A k \in DOMAIN thoughts : Serial(k) \in 1..global_thought_counter
          /\ Cardinality(DOMAIN thoughts) = global_thought_counter)
    /\ [][/\ global_thought_counter' >= global_thought_counter
          /\ thoughts' # thoughts => global_thought_counter' > global_thought_counter
          /\ DOMAIN thoughts \subseteq DOMAIN thoughts']_vars

\* two thoughts created within the same second, after a failed creation
C1_Witness ==
    /\ \E a, b \in DOMAIN thoughts : a # b /\ a[3] = b[3]
    /\ request.tool = "enhanced_thinking"
    /\ "input" \in DOMAIN response

\* C2: a creation that names a stored parent puts the new id exactly once
\* into that parent's children list and into no other children list.
C2_ChildLinkedOnce ==
    [][(CreateStep /\ request'.input.parent_thought_id \in DOMAIN thoughts) =>
         LET parent == request'.input.parent_thought_id
             new == response'.thought_id
         IN /\ new \in DOMAIN thoughts'
            /\ Count(thoughts'[parent].children_ids, new) = 1
            /\ \A q \in DOMAIN thoughts' \ {parent} :
                  ~Contains(thoughts'[q].children_ids, new)]_vars

\* a parent with two children
C2_Witness ==
    \E p \in DOMAIN thoughts :
        /\ Len(thoughts[p].children_ids) = 2
        /\ \A i \in 1..2 : thoughts[thoughts[p].children_ids[i]].parent_id = p

\* C3: a creation that names a parent id the store does not hold succeeds,
\* stores the thought with that parent id, appends it to the current session
\* and changes no thought stored before.
C3_UnknownParentAccepted ==
    [][(/\ CreateStep
        /\ request'.input.parent_thought_id # None
        /\ request'.input.parent_thought_id \notin DOMAIN thoughts) =>
         /\ "thought_id" \in DOMAIN response'
         /\ LET new == response'.thought_id IN
            /\ new \in DOMAIN thoughts' \ DOMAIN thoughts
            /\ thoughts'[new].parent_id = request'.input.parent_thought_id
            /\ SessionList(thought_sessions', current_session_id) =
                  Append(SessionList(thought_sessions, current_session_id), new)
            /\ \A k \in DOMAIN thoughts : thoughts'[k] = thoughts[k]]_vars

\* a stored thought names a parent the store does not hold, next to a
\* thought stored before it
C3_Witness ==
    \E t, u \in DOMAIN thoughts :
        /\ Serial(u) < Serial(t)
        /\ thoughts[t].parent_id # None
        /\ thoughts[t].parent_id \notin DOMAIN thoughts

RECURSIVE Ancestor(_, _, _)
\* the thought reached from id by following n parent links, or None
Ancestor(ths, id, n) ==
    IF id = None \/ id \notin DOMAIN ths THEN None
    ELSE IF n = 0 THEN id
    ELSE Ancestor(ths, ths[id].parent_id, n - 1)

\* C4: the parent links form a forest: following parent links from a stored
\* thought never comes back to that thought (which covers the thought that
\* is its own parent).
C4_Forest ==
    \A t \in DOMAIN thoughts :
        \A n \in 1..Cardinality(DOMAIN thoughts) : Ancestor(thoughts, t, n) # t

\* C5: the walk of get_thinking_path visits at most as many thoughts as the
\* store holds.
C5_WalkBounded ==
    /\ Len(path) <= Cardinality(DOMAIN thoughts)
    /\ "path" \in DOMAIN response => Len(response.path) <= Cardinality(DOMAIN thoughts)

\* C6: get_thinking_path for an id the store does not hold answers with the
\* error-as-data result that names the id and carries an empty path, and
\* changes nothing in the engine.
C6_UnknownIdIsData ==
    [][(/\ pc = "idle"
        /\ request'.tool = "get_thinking_path"
        /\ request'.thought_id \notin DOMAIN thoughts) =>
         /\ response' = [error |-> <<"THOUGHT_NOT_FOUND", request'.thought_id>>,
                         path |-> <<>>]
         /\ pc' = "idle"
         /\ engine' = engine]_vars

\* the not-found answer given by an engine that holds thoughts
C6_Witness ==
    /\ request.tool = "get_thinking_path"
    /\ DOMAIN response = {"error", "path"}
    /\ thoughts # <<>>
    /\ request.thought_id \notin DOMAIN thoughts

\* the answer of a get_thinking_path call that returned a path
PathReturned == request.tool = "get_thinking_path" /\ "path_length" \in DOMAIN response

\* the returned path ends at the requested thought and each thought's parent
\* is the thought before it
IsChain(p) ==
    /\ p # <<>>
    /\ \A i \in 1..Len(p) : p[i] \in DOMAIN thoughts
    /\ p[Len(p)] = request.thought_id
    /\ \A i \in 1..(Len(p) - 1) : thoughts[p[i + 1]].parent_id = p[i]

C8_BlankRejected ==
    /\ [][BlankCreateStep =>
            /\ response' = [input |-> [error |-> "ERROR_EMPTY_THOUGHT_CONTENT",
                                        status |-> "failed"]]
            /\ engine' = engine]_vars
    /\ [](\A k \in DOMAIN thoughts : Strip(thoughts[k].content) # <<>>)

\* a whitespace-only creation refused by an engine that holds a thought
C8_Witness ==
    /\ request.tool = "enhanced_thinking"
    /\ request.input.thought # <<>>
    /\ Strip(request.input.thought) = <<>>
    /\ "input" \in DOMAIN response
    /\ thoughts # <<>>

ReadOnlyTools ==
    {"analyze_thinking_session", "metacognitive_reflection", "get_thinking_path",
     "export_thinking_session"}

\* C9: the analysis, path and export tools leave the store, the session map
\* with its set of names, the strategy history and the counter unchanged.
C9_ReadOnlyTools ==
    [][request'.tool \in ReadOnlyTools => engine' = engine]_vars

\* C10: every session list only grows at its end, and the current session's
\* list is the stored ids in creation order.
C10_SessionAppendOnly ==
    /\ [][\A sid \in DOMAIN thought_sessions :
            /\ sid \in DOMAIN thought_sessions'
            /\ IsPrefix(thought_sessions[sid], thought_sessions'[sid])]_vars
    /\ [](LET list == SessionList(thought_sessions, current_session_id) IN
          /\ Range(list) = DOMAIN thoughts
          /\ Len(list) = global_thought_counter
          /\ \A i \in 1..Len(list) : Serial(list[i]) = i)

\* a session of two thoughts or more, read after a failed creation
C10_Witness ==
    /\ Len(SessionList(thought_sessions, current_session_id)) >= 2
    /\ "input" \in DOMAIN response

\* C11: a stored thought is never removed and never changes, except that
\* its children list grows at its end.
C11_ThoughtsImmutable ==
    [][\A k \in DOMAIN thoughts :
          /\ k \in DOMAIN thoughts'
          /\ thoughts'[k] =
                [thoughts[k] EXCEPT !.children_ids = thoughts'[k].children_ids]
          /\ IsPrefix(thoughts[k].children_ids, thoughts'[k].children_ids)]_vars

\* a thought that got a child has been through a later strategy call
C11_Witness ==
    /\ request.tool = "adapt_thinking_strategy"
    /\ \E k \in DOMAIN thoughts : thoughts[k].children_ids # <<>>

\* the step serves an adapt_thinking_strategy call
SuggestStep == request'.tool = "adapt_thinking_strategy"

\* the last n entries of a sequence
LastEntries(seq, n) == SubSeq(seq, IF Len(seq) > n THEN Len(seq) - n + 1 ELSE 1, Len(seq))

\* C12: the strategy history never holds more than 20 entries, and every
\* suggest_next_thinking_strategy call leaves in it the last 20 entries of the
\* old history followed by the call's own (strategy, effectiveness) pair, so
\* that the history is the pairs of the most recent min(n, 20) calls in call
\* order and the entry evicted is the oldest.
C12_HistoryWindow ==
    /\ [](Len(strategy_history) <= HistoryCap)
    /\ [][SuggestStep =>
            strategy_history' =
                LastEntries(Append(strategy_history,
                                   <<request'.current_strategy,
                                     request'.effectiveness_score>>), 20)]_vars

\* a full history in which a marked call has travelled to the oldest place
\* and the newest entry is a marked call of the other kind
C12_Witness ==
    /\ Len(strategy_history) = 20
    /\ strategy_history[1] = <<"critical", 80>>
    /\ strategy_history[20] = <<"creative", 40>>
    /\ \A i \in 2..19 : strategy_history[i] = FillerCall

\* the answer of an adapt_thinking_strategy call
Suggested == request.tool = "adapt_thinking_strategy"

\* the recommendations that carry the "previously effective" reason
PreviouslyEffective(recommendations) ==
    SelectSeq(recommendations,
              LAMBDA rec : rec[2] = "STRATEGY_EFFECTIVE_PREVIOUSLY_REASON")

\* the entries among the last five of the history that scored above 0.7
RecentSuccesses(history) ==
    {i \in 1..Len(history) : i > Len(history) - 5 /\ history[i][2] > 70}

\* C13: in every answer of suggest_next_thinking_strategy at most two
\* recommendations carry the "previously effective" reason, and each of them
\* names the strategy of one of the last five history entries whose
\* effectiveness is above 0.7.
C13_RecentSuccessesOnly ==
    Suggested =>
        LET effective == PreviouslyEffective(response.suggested_strategies) IN
        /\ Len(effective) <= 2
        /\ \A i \in 1..Len(effective) :
              \E j \in RecentSuccesses(strategy_history) :
                  strategy_history[j][1] = effective[i][1]

\* three of the last five entries were effective, two are recommended, and
\* the effective strategy of the sixth-last entry is not among the last five
C13_Witness ==
    /\ Suggested
    /\ Len(strategy_history) = 6
    /\ strategy_history[1] = <<"critical", 80>>
    /\ \A i \in 2..6 : strategy_history[i][1] # "critical"
    /\ Cardinality(RecentSuccesses(strategy_history)) = 3
    /\ Len(PreviouslyEffective(response.suggested_strategies)) = 2

\* no context branch and no history branch applies to the answered call
NoBranchApplies ==
    /\ ~Less(Frac(7, 10), response.context_analysis.complexity)
    /\ ~Less(Frac(6, 10), response.context_analysis.ambiguity)
    /\ ~Less(Frac(5, 10), response.context_analysis.emotional_tone)
    /\ RecentSuccesses(strategy_history) = {}

\* the strategies of a list of recommendations
StrategiesOf(recommendations) ==
    [i \in 1..Len(recommendations) |-> recommendations[i][1]]

\* the reasons that only the effectiveness fallback gives
FallbackReasons ==
    {"EXPLORE_ALTERNATIVES_REASON", "ANALYZE_APPROACH_REASON",
     "USE_SYSTEMATIC_ANALYSIS_REASON", "APPLY_STRICT_LOGIC_REASON",
     "TRY_CREATIVE_APPROACH_REASON", "GENERATE_MORE_ALTERNATIVES_REASON"}

\* C14: when no context branch and no history branch applies, the answer is
\* [tree, dialectical, metacognitive] below 0.5, [systematic, analytical]
\* from 0.5 to below 0.7 and [creative, divergent] otherwise; when a branch
\* applies, no fallback entry is in the answer (the "opposing viewpoints"
\* entry, which the ambiguity branch gives as well, is there once with that
\* branch and not at all without it).
C14_FallbackByEffectiveness ==
    Suggested =>
        LET recommendations == response.suggested_strategies
            eff == request.effectiveness_score
        IN IF NoBranchApplies
           THEN StrategiesOf(recommendations) =
                    IF eff < 50 THEN <<"tree", "dialectical", "metacognitive">>
                    ELSE IF eff < 70 THEN <<"systematic", "analytical">>
                    ELSE <<"creative", "divergent">>
           ELSE /\ \A i \in 1..Len(recommendations) :
                      recommendations[i][2] \notin FallbackReasons
                /\ Count(recommendations, <<"dialectical", "OPPOSING_VIEWPOINTS_REASON">>)
                      = IF Less(Frac(6, 10), response.context_analysis.ambiguity)
                        THEN 1 ELSE 0

\* a fallback answer given although an entry older than the last five was
\* effective
C14_Witness ==
    /\ Suggested
    /\ NoBranchApplies
    /\ request.effectiveness_score = 60
    /\ Len(strategy_history) = 6
    /\ strategy_history[1][2] > 70

\* C15: every answer of adapt_thinking_strategy carries a non-empty list of
\* suggested strategies.
C15_NeverEmpty ==
    Suggested =>
        /\ "suggested_strategies" \in DOMAIN response
        /\ response.suggested_strategies # <<>>

\* the call that no branch and no range below 0.7 serves: plain context,
\* effectiveness exactly 0.7, nothing effective in the history
C15_Witness ==
    /\ Suggested
    /\ request.effectiveness_score = 70
    /\ request.context = PlainContext
    /\ RecentSuccesses(strategy_history) = {}
    /\ StrategiesOf(response.suggested_strategies) = <<"creative", "divergent">>

\* the answer of an analyze_thinking_session call
Analyzed == request.tool = "analyze_thinking_session"

\* C16: analyze_session_coherence answers with the "session not found" error
\* as data exactly when the session map does not hold the requested name
\* (the current session's name when none is given), and with score 0.0 and
\* the "no thoughts" note when the map holds the name with an empty list.
C16_NotFoundIffUnknown ==
    Analyzed =>
        LET sid == IF request.session_id = None
                   THEN current_session_id ELSE request.session_id
        IN /\ "input" \notin DOMAIN response
           /\ "error" \in DOMAIN response <=> sid \notin DOMAIN thought_sessions
           /\ "error" \in DOMAIN response =>
                 response = [error |-> "ERROR_SESSION_NOT_FOUND"]
           /\ (sid \in DOMAIN thought_sessions /\ thought_sessions[sid] = <<>>) =>
                 response = [coherence_score |-> Zero,
                             analysis |-> "ANALYSIS_NO_THOUGHTS"]

\* the current session, known but empty, is analysed
C16_Witness ==
    /\ Analyzed
    /\ request.session_id = None
    /\ "analysis" \in DOMAIN response
    /\ thought_sessions = (current_session_id :> <<>>)

\* C17: a json export of the current session before any thought was created
\* answers with thought_count 0 and an empty thought list, never with an
\* error.
C17_EmptyExportSucceeds ==
    (/\ request.tool = "export_thinking_session"
     /\ request.format_type = "json"
     /\ request.session_id \in {None, current_session_id}
     /\ global_thought_counter = 0) =>
        /\ "error" \notin DOMAIN response
        /\ "thought_count" \in DOMAIN response
        /\ response.thought_count = 0
        /\ response.thoughts = <<>>

\* C18: the coherence score of a session with thoughts is 1 minus the number
\* of recorded conflicts over the number of thoughts; it is 1 when no
\* conflict is recorded, and a session of one thought has no conflict and
\* score 1.
C18_CoherenceFormula ==
    (Analyzed /\ "thought_count" \in DOMAIN response) =>
        LET n == Len(SessionList(thought_sessions, current_session_id))
            c == Len(response.consistency_analysis.conflicts)
            score == response.coherence_score
        IN /\ n >= 1
           /\ response.thought_count = n
           /\ score.num * n = (n - c) * score.den
           /\ c = 0 => Same(score, One)
           /\ n = 1 => c = 0 /\ Same(score, One)

\* one conflict recorded between two thoughts: score one half
C18_Witness ==
    /\ Analyzed
    /\ "thought_count" \in DOMAIN response
    /\ response.thought_count = 2
    /\ Len(response.consistency_analysis.conflicts) = 1
    /\ Same(response.coherence_score, Frac(1, 2))

\* C19: a creation that carries an explicit confidence level stores the
\* thought with that level, whatever the text and the two request flags.
C19_ExplicitConfidenceStored ==
    [][(CreateStep /\ request'.input.confidence # None) =>
          /\ "thought_id" \in DOMAIN response'
          /\ thoughts'[response'.thought_id].metrics.confidence_level =
                request'.input.confidence]_vars

\* a fraction between 0 and 1
InUnit(x) == x.den > 0 /\ 0 <= x.num /\ x.num <= x.den

NumericMetrics == DOMAIN ThoughtMetrics \ {"confidence_level"}

\* C20: every numeric field of the metrics that analyze_thought_quality
\* returns for a text that is not blank lies in [0,1], with the analysis
\* libraries, with a failing readability computation and without them.
C20_MetricsInUnit ==
    (request.tool = "analyze_thought_quality" /\ response # NoResponse) =>
        /\ DOMAIN response = DOMAIN ThoughtMetrics
        /\ \A f \in NumericMetrics : InUnit(response[f])

\* a readability score above 100 is clipped to 1 next to a strategy score
\* that is neither 0 nor 1
C20_Witness ==
    /\ request.tool = "analyze_thought_quality"
    /\ response # NoResponse
    /\ request.reading.libs /\ ~request.reading.raised
    /\ request.reading.flesch > 100
    /\ Same(response.clarity_score, One)
    /\ request.strategy = "critical"
    /\ Less(Zero, response.critical_thinking_score)
    /\ Less(response.critical_thinking_score, One)

\* the twelve strategy-specific fields of the metrics
StrategyFields == {StrategyAnalysis[s].field : s \in DOMAIN StrategyAnalysis}

MetricsReturned == request.tool = "analyze_thought_quality" /\ response # NoResponse

\* C21 as stated: every declared strategy has a matching strategy-specific
\* score, the one the analysis fills, and the other eleven are 0.
C21_OneScorePerStrategy ==
    MetricsReturned =>
        /\ request.strategy \in DOMAIN StrategyAnalysis
        /\ \A f \in StrategyFields \ {StrategyAnalysis[request.strategy].field} :
              Same(response[f], Zero)

\* C21: in the metrics of an analysed thought a strategy-specific score
\* differs from 0 only if it is the score of the thought's declared
\* strategy; seven of the nineteen strategies (linear, tree, dialectical,
\* systematic, creative, analytical, metacognitive) have no score, and for
\* them all twelve are 0.
C21_OnlyMatchingScore ==
    MetricsReturned =>
        /\ Cardinality(StrategyFields) = 12
        /\ Cardinality(ThinkingStrategies) = 19
        /\ \A f \in StrategyFields :
              ~Same(response[f], Zero) =>
                  /\ request.strategy \in DOMAIN StrategyAnalysis
                  /\ f = StrategyAnalysis[request.strategy].field

\* a systemic thought whose markers earn a score, filed under the systemic
\* score and nowhere else
C21_Witness ==
    /\ MetricsReturned
    /\ request.strategy = "systemic"
    /\ Less(Zero, response.systemic_thinking_score)
    /\ \A f \in StrategyFields \ {"systemic_thinking_score"} :
          Same(response[f], Zero)

\* marker occurs in text, somewhere
Occurs(marker, text) ==
    \E i \in 1..(Len(text) - Len(marker) + 1) :
        \A k \in 1..Len(marker) : text[i + k - 1] = marker[k]

\* the text with its capitals in lower case
Lowercased(text) ==
    [i \in 1..Len(text) |->
        IF text[i] \in DOMAIN LowerOf THEN LowerOf[text[i]] ELSE text[i]]

\* the biases of the catalog whose condition a text meets
BiasesMet(text) ==
    {i \in 1..Len(COGNITIVE_BIAS_MARKERS) :
        LET bias == COGNITIVE_BIAS_MARKERS[i] IN
        /\ Cardinality({m \in 1..Len(bias.markers) :
                           Occurs(bias.markers[m], Lowercased(text))}) >= 2
        /\ \E c \in 1..Len(bias.context) :
              Occurs(bias.context[c], Lowercased(text))}

BiasesReturned ==
    request.tool = "detect_cognitive_biases" /\ response # NoResponse

\* C22: detect_cognitive_biases reports a bias exactly when at least 2 of
\* its markers and at least one of its context cues occur in the lowercased
\* text; each bias is reported once and the names are in catalog order; a
\* text without any catalog marker gets the empty list.
C22_BiasIffMarkersAndContext ==
    BiasesReturned =>
        LET detected == response.detected_biases
            met == BiasesMet(request.thought)
        IN /\ Len(detected) = Cardinality(met)
           /\ \A i \in met :
                 \E k \in 1..Len(detected) :
                     /\ detected[k] = COGNITIVE_BIAS_MARKERS[i].name
                     /\ k = Cardinality({j \in met : j <= i})
           /\ (\A i \in 1..Len(COGNITIVE_BIAS_MARKERS) :
                  \A m \in 1..Len(COGNITIVE_BIAS_MARKERS[i].markers) :
                     ~Occurs(COGNITIVE_BIAS_MARKERS[i].markers[m],
                             Lowercased(request.thought)))
                 => detected = <<>>

\* two biases reported together, in catalog order, for a text that names
\* the later bias's cue first and has a capitalised marker
C22_Witness ==
    /\ BiasesReturned
    /\ response.detected_biases = <<"confirmation bias", "hasty generalization">>
    /\ request.thought = JoinPhrases(<<6, 5, 2, 1>>)

\* two markers of a bias without any of its cues report nothing
C22_WitnessNoContext ==
    /\ BiasesReturned
    /\ request.thought = JoinPhrases(<<3, 4>>)
    /\ response.detected_biases = <<>>

\* the creation of the example: type analysis, strategy critical, no
\* explicit confidence, analysis requested
ExampleCreated ==
    /\ request.tool = "enhanced_thinking"
    /\ request.input.thought = ExampleText
    /\ request.input.thought_type = "analysis"
    /\ request.input.strategy = "critical"
    /\ request.input.confidence = None
    /\ request.input.request_analysis
    /\ "thought_id" \in DOMAIN response

\* C23: the thought created from the example text has evidence strength
\* above 0, logical coherence above 0 and confidence level HIGH.
C23_ExampleIsHigh ==
    ExampleCreated =>
        LET metrics == thoughts[response.thought_id].metrics IN
        /\ Less(Zero, metrics.evidence_strength)
        /\ Less(Zero, metrics.logical_coherence)
        /\ metrics.confidence_level = ConfidenceLevel.HIGH

\* what the example gets: evidence and coherence above 0, as claimed, and
\* the confidence level of a tie
C23_ExampleIsMedium ==
    ExampleCreated =>
        LET metrics == thoughts[response.thought_id].metrics IN
        /\ Same(metrics.evidence_strength, Frac(2, 3))
        /\ Same(metrics.logical_coherence, Frac(1, 3))
        /\ metrics.confidence_level = ConfidenceLevel.MEDIUM

\* the calls that have built their thought, and those that returned it
Built == {c \in DOMAIN calls : calls[c].thought # None}

Created == {c \in Built : calls[c].pc = "done"}

\* call c has its id's number and has not returned yet
InCreation(c) ==
    calls[c].pc \in {"create_thought", "update_thought_relationships", "store",
                     "append", "return"}

\* the calls whose id is in the session list
Appended == {c \in Built : calls[c].pc \in {"return", "done"}}

\* C24: whatever the interleaving of enhanced_thinking calls (and analyses),
\* a creation runs from its id's number to its return while every other call
\* is suspended at the init event or has returned; so the ids of the built
\* thoughts are pairwise different, the counter counts the creations, every
\* returned thought is stored under its id and listed once in the session,
\* the session lists exactly the appended thoughts, and a thought created
\* after the parent it names is once in that parent's children list.
C24_CreationAtomic ==
    /\ \A c \in DOMAIN calls :
          InCreation(c) =>
              \A d \in DOMAIN calls \ {c} : calls[d].pc \in {"waiting", "done"}
    /\ \A c, d \in Built : c # d => calls[c].thought.id # calls[d].thought.id
    /\ global_thought_counter =
          Cardinality({c \in DOMAIN calls : InCreation(c)} \cup Created)
    /\ Len(SessionList(thought_sessions, current_session_id)) = Cardinality(Appended)
    /\ \A c \in Created :
          /\ calls[c].thought.id \in DOMAIN thoughts
          /\ thoughts[calls[c].thought.id].content = calls[c].thought.content
          /\ Count(SessionList(thought_sessions, current_session_id),
                   calls[c].thought.id) = 1
    /\ \A c, d \in Created :
          (/\ calls[d].thought.parent_id = calls[c].thought.id
           /\ Serial(calls[c].thought.id) < Serial(calls[d].thought.id))
             => Count(thoughts[calls[c].thought.id].children_ids,
                      calls[d].thought.id) = 1

\* two creations arrived before initialize() succeeded and waited together;
\* then the one that names the other's thought as parent ran second
C24_Witness ==
    /\ Cardinality(Created) = 2
    /\ validations = 1
    /\ \A c \in Created : calls[c].original_formatter_language = language
    /\ \E c, d \in Created :
          /\ c > d
          /\ calls[d].thought.parent_id = calls[c].thought.id
          /\ thoughts[calls[c].thought.id].children_ids = <<calls[d].thought.id>>
          /\ calls[d].response.children = <<>>
    /\ init_calls = 1

\* what a step of the server respects with regard to initialization
InitializationStep ==
    /\ ~initialized => engine' = engine
    /\ \A c \in DOMAIN calls' \ DOMAIN calls :
          ~initialized => calls'[c].pc = "waiting"
    /\ \A c \in DOMAIN calls :
          (calls[c].pc = "waiting" /\ calls'[c].pc # "waiting") =>
              IF init_event
              THEN initialized /\ calls'[c].pc = "entered"
              ELSE /\ calls'[c].pc = "done"
                   /\ calls'[c].response = ErrorResult("ERROR_INIT_TIMEOUT")
                   /\ engine' = engine
    /\ \A c \in DOMAIN calls' : calls'[c].pc \notin {"waiting", "done"} => initialized'
    /\ init_event' => initialized'
    /\ initialized => (initialized' /\ validations' = validations)
    /\ validations' \in {validations, validations + 1}

\* C25: no call touches the engine before initialize() has succeeded. A call
\* that arrives earlier waits; it leaves the wait either with the init event
\* set, and then runs, or by the timeout, and then returns the error payload
\* with the engine unchanged; a failed initialize() leaves the server
\* uninitialized and the event unset; once initialize() has succeeded no
\* further initialize() validates the components.
C25_WaitForInitialization == [][InitializationStep]_vars

\* initialize() failed and the first call timed out; the second call waited
\* too, and ran after the second initialize() succeeded
C25_Witness ==
    /\ Len(calls) = 2
    /\ calls[1].response = ErrorResult("ERROR_INIT_TIMEOUT")
    /\ calls[2].original_formatter_language = language
    /\ calls[2].pc = "done"
    /\ calls[2].thought # None
    /\ DOMAIN thoughts = {calls[2].thought.id}
    /\ validations = 2
    /\ initialized

\* a second initialize() after the first succeeded validated nothing
C25_WitnessRepeated ==
    /\ init_calls = 2
    /\ validations = 1
    /\ initialized

\* C29: whenever every call has returned, and whenever the event loop runs
\* no call, the formatter's language is the server's language, whatever the
\* interleaving of the calls and the languages they ask for; a call answers
\* in the language it asks for if that is a supported one and in the
\* server's language otherwise.
C29_FormatterLanguageRestored ==
    /\ (\A c \in DOMAIN calls : calls[c].pc = "done") => formatter_language = language
    /\ running = {} => formatter_language = language
    /\ \A c \in DOMAIN calls :
          calls[c].current_response_language # None =>
              calls[c].current_response_language =
                  IF /\ calls[c].tool = "enhanced_thinking"
                     /\ calls[c].input.response_language \in SupportedLanguages
                  THEN calls[c].input.response_language
                  ELSE language

\* two creations waited for the server together, one asking for a supported
\* language that is not the server's and one for an unsupported language;
\* both have returned
C29_Witness ==
    /\ Len(calls) = 2
    /\ validations = 1
    /\ \A c \in DOMAIN calls :
          /\ calls[c].pc = "done"
          /\ calls[c].tool = "enhanced_thinking"
          /\ calls[c].thought # None
    /\ language = <<"en">>
    /\ calls[1].input.response_language = <<"ru">>
    /\ calls[1].current_response_language = <<"ru">>
    /\ calls[2].input.response_language = <<"xx">>
    /\ calls[2].current_response_language = <<"en">>
    /\ formatter_language = <<"en">>
    /\ init_calls = 1

\* C26: the coherence score that analyze_session_coherence returns lies in
\* [0,1], and the conflicts recorded for a session are no more than its
\* thoughts.
C26_CoherenceInUnit ==
    (Analyzed /\ "coherence_score" \in DOMAIN response) =>
        /\ InUnit(response.coherence_score)
        /\ "thought_count" \in DOMAIN response =>
              Len(response.consistency_analysis.conflicts) <= response.thought_count

\* C27: the history that an answered suggest_next_thinking_strategy call
\* read ends with the call's own (strategy, effectiveness) pair; so a call
\* with effectiveness above 0.7 gets at least one "previously effective"
\* recommendation and none of the fallback's, and the fallback's creative
\* and divergent entries are given only to a call with effectiveness
\* exactly 0.7.
C27_OwnEntryCounts ==
    Suggested =>
        LET recommendations == response.suggested_strategies
            eff == request.effectiveness_score
        IN /\ strategy_history # <<>>
           /\ strategy_history[Len(strategy_history)] =
                 <<request.current_strategy, eff>>
           /\ Len(strategy_history) \in RecentSuccesses(strategy_history) <=> eff > 70
           /\ eff > 70 =>
                 /\ Len(PreviouslyEffective(recommendations)) >= 1
                 /\ \A i \in 1..Len(recommendations) :
                       recommendations[i][2] \notin FallbackReasons
           /\ (\/ Contains(recommendations,
                           <<"creative", "TRY_CREATIVE_APPROACH_REASON">>)
               \/ Contains(recommendations,
                           <<"divergent", "GENERATE_MORE_ALTERNATIVES_REASON">>))
                 => eff = 70

\* the first call of an engine, plain context and effectiveness 0.8: its own
\* entry is the only one, and it is recommended as previously effective
C27_Witness ==
    /\ Suggested
    /\ request.context = PlainContext
    /\ strategy_history = <<<<"critical", 80>>>>
    /\ response.suggested_strategies =
          <<<<"critical", "STRATEGY_EFFECTIVE_PREVIOUSLY_REASON">>>>

\* the number of places at which the session lists hold id
Listed(id) ==
    Cardinality({p \in (DOMAIN thought_sessions) \X (1..MaxThoughts) :
                    /\ p[2] <= Len(thought_sessions[p[1]])
                    /\ thought_sessions[p[1]][p[2]] = id})

\* C28: every id of a session list is a key of the store and every stored
\* id is at exactly one place of the session lists; so the thought_count of
\* a session analysis and of a json export is the length of the session's id
\* list, and the current session's list is not empty once a thought is
\* stored.
C28_SessionsMatchStore ==
    /\ \A sid \in DOMAIN thought_sessions :
          /\ Len(thought_sessions[sid]) <= MaxThoughts
          /\ \A i \in 1..Len(thought_sessions[sid]) :
                thought_sessions[sid][i] \in DOMAIN thoughts
    /\ \A id \in DOMAIN thoughts : Listed(id) = 1
    /\ (/\ request.tool \in {"analyze_thinking_session", "export_thinking_session"}
        /\ "thought_count" \in DOMAIN response)
          => response.thought_count =
                Len(SessionList(thought_sessions, SessionOf(request.session_id)))
    /\ global_thought_counter > 0 =>
          Len(SessionList(thought_sessions, current_session_id)) > 0

\* the json export of a session of two thoughts, one the child of the other
C28_Witness ==
    /\ request.tool = "export_thinking_session"
    /\ request.format_type = "json"
    /\ "thought_count" \in DOMAIN response
    /\ response.thought_count = 2
    /\ Len(thought_sessions[current_session_id]) = 2
    /\ \E id \in DOMAIN thoughts : Len(thoughts[id].children_ids) = 1

\* C30: the children lists mirror the parent links: for stored thoughts p
\* and c, c's id is in p's children list exactly when c's parent id is p's
\* id.
C30_ChildrenMirrorParents ==
    \A p, c \in DOMAIN thoughts :
        Contains(thoughts[p].children_ids, c) <=> thoughts[c].parent_id = p
====
